---- MODULE Spec2Model ----
(***************************************************************************)
(* A state-machine model of the mothra 2D engine core: the entity store    *)
(* (src/src/ecs.rs), the asset cache (src/src/asset_manager.rs), the       *)
(* batching, double-buffering renderer (src/src/renderer.rs) and the       *)
(* frame loop (src/src/game.rs).                                           *)
(*                                                                         *)
(* Conventions.  f32 values that the program only stores, adds and         *)
(* compares are integers here (z is counted in tenths: 0.2 is 2); a NaN z  *)
(* is the record ZNaN.  A scale 2.0 / d is the fraction <<2, d>>.  An      *)
(* Rc<TextureHandle> is the address of its allocation.  A panic, expect or *)
(* unwrap that fires sets panicked, after which nothing runs.              *)
(***************************************************************************)
EXTENDS Integers, Sequences, FiniteSets, TLC

\* ---------------------------------------------------------------- bounds

\* Entity identifiers the callers use are 0 .. MaxEntity-1; spawn stops there.
MaxEntity == 2

\* A TextureHandle or ShaderModule is allocated at an address of 1 .. MaxAddr.
MaxAddr == 5

\* Renderer::render is called at most this many times.
MaxFrames == 3

\* The worlds handed to Renderer::render hold at most this many drawables.
MaxRendered == 2

\* The worlds handed to the queries alone hold at most this many drawables.
MaxQueried == 3

\* The worlds handed to the draw entry points hold at most this many drawables.
MaxDrawables == 4

\* The number of Game::update calls run_game is followed for.
MaxUpdates == 2

\* The number of frames run_game is followed for.
MaxRedraws == 3

\* The time, in milliseconds, run_game is followed for.
MaxClock == 32

\* How many drawables below and above a slot's capacity the large worlds have.
MaxOverflow == 2

\* The InputEvents the dispatcher is let hold before a drain.
MaxQueue == 3

\* The frame rates counted as low, and the reading of the clock up to which
\* a loop of a low frame rate is followed.
MaxSlowFps == 3

MaxSlowClock == 1400

\* The TextureHandles a caller creates outside the asset cache.
MaxHandles == 3

\* ---------------------------------------------------------------- program constants

\* size_of::<[f32; 4]>(), the bytes of one vertex
VERTEX_SIZE == 16

\* size_of::<u16>(), the bytes of one index
INDEX_SIZE == 2

\* the size in bytes of each of the four double-buffer buffers
BUFFER_SIZE == 4096

\* the number of values of the u16 counter vertex_count_total
U16_RANGE == 65536

\* the number of buffer slots (batched_vertex_buffers.len())
NUM_SLOTS == 2

\* ---------------------------------------------------------------- values

Entities == 0 .. (MaxEntity - 1)

Z(v) == [nan |-> FALSE, v |-> v]

ZNaN == [nan |-> TRUE, v |-> 0]

MkTransform(x, y, w, h, z) == [x |-> x, y |-> y, w |-> w, h |-> h, z |-> z]

\* The transforms the callers attach (those of examples/test_sprite_z.rs, and
\* one whose z is NaN).
Transforms ==
    { MkTransform(100, 100, 200, 200, Z(2)),
      MkTransform(150, 150, 200, 200, Z(5)),
      MkTransform(200, 200, 200, 200, Z(8)),
      MkTransform(100, 150, 128, 128, ZNaN) }

\* The transforms of the worlds handed to the draw entry points.
DrawTransforms ==
    { MkTransform(100, 100, 200, 200, Z(2)),
      MkTransform(150, 150, 200, 200, Z(5)),
      MkTransform(100, 150, 128, 128, ZNaN) }

\* The transforms of the worlds whose quads are followed: the two sprites of
\* test_sprites, and one whose four fields all differ.
QuadTransforms ==
    { MkTransform(100, 150, 128, 128, Z(5)),
      MkTransform(300, 150, 128, 128, Z(10)),
      MkTransform(10, 20, 30, 40, Z(2)) }

\* Addresses of the live TextureHandle allocations sprites may share.
TextureHandles == {1, 2}

Addrs == 1 .. MaxAddr

\* The path strings the callers pass to load_texture: two spellings of one
\* file, another file, and a path that cannot be opened.
TexturePaths == {"black.png", "./black.png", "white.png", "missing.png"}

\* The path strings the callers pass to load_shader: two spellings of one
\* file, and a path that cannot be read.
ShaderPaths == {"sprite.wgsl", "./sprite.wgsl", "missing.wgsl"}

\* The file a path string resolves to.
FileOf(p) ==
    IF p = "./black.png" THEN "black.png"
    ELSE IF p = "./sprite.wgsl" THEN "sprite.wgsl"
    ELSE p

\* Whether image::open / fs::read_to_string succeeds on the path.
Readable(p) == p \notin {"missing.png", "missing.wgsl"}

VARIABLES
    next_entity,    \* World.next_entity
    transforms,     \* World.transforms : entity -> Transform
    sprites,        \* World.sprites    : entity -> address of the TextureHandle
    ret,            \* the last call and what it returned
    panicked,       \* the process was aborted by a panic
    current_buffer, \* Renderer.current_buffer, the active slot
    vbufs,          \* Renderer.batched_vertex_buffers: per slot, the vertices written
    ibufs,          \* Renderer.batched_index_buffers: per slot, the indices written
    frame,          \* the locals of the last draw_sprites_batched call
    pass,           \* the draws recorded in the last render pass
    textures,       \* AssetManager.textures : path string -> address of the handle
    shaders,        \* AssetManager.shaders  : path string -> address of the module
    heap,           \* the live Rc allocations: address -> what it holds
    loaded,         \* every (path, handle) load_texture and load_shader returned
    gpu_uploads,    \* the number of create_texture / write_texture pairs issued
    write_inflight, \* the submissions the GPU was executing at the last slot write
    pc,             \* where the running Renderer::render call stands
    inflight,       \* the submissions the GPU has not retired
    submitted,      \* the number of queue.submit calls so far
    signalled,      \* the work-done callback has sent on the oneshot channel
    completed,      \* the number of Renderer::render calls that returned
    slots_used,     \* the slot each frame wrote, in frame order
    events,         \* what the running (or last) frame did, in order
    cfg,            \* the GameConfig handed to run_game
    scale_factor,   \* the scale factor of the display the window is on
    phase,          \* run_game: "new" after Renderer::new, "running" in the loop
    surface_config, \* Renderer.config: the size the surface is configured to
    uniform,        \* the contents of Renderer.uniform_buffer: the scale
    keys_pressed,   \* InputState.keys_pressed
    mouse_buttons,  \* InputState.mouse_buttons
    cursor_position,\* InputState.cursor_position: <<>> is None, <<x, y>> is Some
    dispatch_queue, \* InputDispatcher.events
    now,            \* the monotonic clock, in milliseconds
    last_frame_time,\* run_game's last_frame_time
    control_flow,   \* the ControlFlow the last callback left
    redraw_requested, \* window.request_redraw was called and not yet served
    update_count,   \* TestSpriteZ.update_count
    redraws,        \* the number of RedrawRequested events handled to the end
    update_times,   \* history: when game.update was called, for the updates of
                    \* the 1000 ms up to the latest
    aggregation     \* the aggregation loop of a draw_sprites_batched call that
                    \* is followed pass by pass: its counter and what it pushed

worldVars == <<next_entity, transforms, sprites>>

drawVars == <<current_buffer, vbufs, ibufs, frame, pass, write_inflight>>

gpuVars == <<pc, inflight, submitted, signalled, completed, slots_used, events>>

assetVars == <<textures, shaders, heap, loaded, gpu_uploads>>

inputVars == <<keys_pressed, mouse_buttons, cursor_position>>

surfVars == <<surface_config, uniform>>

hostVars == <<cfg, scale_factor, phase>>

loopVars == <<now, last_frame_time, control_flow, redraw_requested,
              update_count, redraws, update_times>>

dispatchVars == <<dispatch_queue>>

aggVars == <<aggregation>>

gameVars == <<inputVars, surfVars, hostVars, loopVars, dispatchVars, aggVars>>

vars == <<next_entity, transforms, sprites, ret, panicked,
          current_buffer, vbufs, ibufs, frame, pass,
          textures, shaders, heap, loaded, gpu_uploads, write_inflight,
          pc, inflight, submitted, signalled, completed, slots_used, events,
          cfg, scale_factor, phase, surface_config, uniform,
          keys_pressed, mouse_buttons, cursor_position, dispatch_queue,
          now, last_frame_time, control_flow, redraw_requested,
          update_count, redraws, update_times, aggregation>>

\* ---------------------------------------------------------------- helpers

\* m with key k set to v (HashMap::insert).
\* An insert that drops every other key.
UpsertAlone(m, k, v) == [e \in {k} |-> v]

Upsert(m, k, v) == [e \in (DOMAIN m) \cup {k} |-> IF e = k THEN v ELSE m[e]]

EmptyMap == [e \in {} |-> 0]

\* Every order in which a HashMap with key set S may be iterated.
RECURSIVE IterOrders(_)
IterOrders(S) ==
    IF S = {} THEN {<<>>}
    ELSE UNION { { <<e>> \o o : o \in IterOrders(S \ {e}) } : e \in S }

\* f32::partial_cmp
PartialCmp(a, b) ==
    IF a.nan \/ b.nan THEN "None"
    ELSE IF a.v < b.v THEN "Less"
    ELSE IF a.v > b.v THEN "Greater"
    ELSE "Equal"

\* The comparator of both sorts: t1.z.partial_cmp(&t2.z), before unwrap.
CmpByZ(d1, d2) == PartialCmp(d1.t.z, d2.t.z)

\* SortPanics with the comparator called on a slice of one element as well.
SortPanicsOnAnyNaN(s) == \E i \in 1 .. Len(s) : s[i].t.z.nan

\* slice::sort_by calls the comparator on every element of a slice of two or
\* more, so unwrap panics exactly when such a slice holds a NaN z.
SortPanics(s) == Len(s) >= 2 /\ \E i \in 1 .. Len(s) : s[i].t.z.nan

\* The last position of s whose element does not compare as c with d; 0 when
\* there is none.
LastNot(s, d, c) ==
    LET I == {i \in 1 .. Len(s) : CmpByZ(s[i], d) # c}
    IN  IF I = {} THEN 0 ELSE CHOOSE i \in I : \A j \in I : j <= i

\* InsertByZ with the comparison turned round (a descending sort).
InsertByZDescending(s, d) ==
    LET p == LastNot(s, d, "Less")
    IN  SubSeq(s, 1, p) \o <<d>> \o SubSeq(s, p + 1, Len(s))

\* d inserted into the sorted sequence s behind the last element not greater
\* than it (the sort is stable).
InsertByZ(s, d) ==
    LET p == LastNot(s, d, "Greater")
    IN  SubSeq(s, 1, p) \o <<d>> \o SubSeq(s, p + 1, Len(s))

\* The insertions of s[lo .. hi], in order, into the sorted sequence acc. The
\* range is halved, and the first half evaluated (its length taken) before
\* the second is entered, so that long slices are evaluated at a small depth.
RECURSIVE InsertRange(_, _, _, _)
InsertRange(s, lo, hi, acc) ==
    IF lo > hi THEN acc
    ELSE IF lo = hi THEN InsertByZ(acc, s[lo])
    ELSE LET mid == (lo + hi) \div 2
             left == InsertRange(s, lo, mid, acc)
         IN  IF Len(left) >= 0 THEN InsertRange(s, mid + 1, hi, left) ELSE left

\* SortByZ leaving the slice in the order it came.
SortSkipped(s) == s

\* slice::sort_by with CmpByZ, for a slice it does not panic on.
SortByZ(s) == InsertRange(s, 1, Len(s), <<>>)

\* ---------------------------------------------------------------- World

\* query_drawables without the lookup's filter: an entity with no Sprite is
\* returned with a null texture.
query_drawables_unfiltered(tr, sp, order) ==
    [i \in 1 .. Len(order) |->
        [t |-> tr[order[i]],
         tex |-> IF order[i] \in DOMAIN sp THEN sp[order[i]] ELSE 0]]

\* World::query_drawables, the transform map iterated in the given order.
query_drawables(tr, sp, order) ==
    LET es == SelectSeq(order, LAMBDA e : e \in DOMAIN sp)
    IN  [i \in 1 .. Len(es) |-> [t |-> tr[es[i]], tex |-> sp[es[i]]]]

\* World::query_drawables_with_z, for a world it does not panic on.
query_drawables_with_z(tr, sp, order) == SortByZ(query_drawables(tr, sp, order))

\* Entity = u32. A u32 is kept as its 32 bits read in two's complement, which
\* is the range of the model checker's integers: 0 .. 2^31 - 1 stand for
\* themselves and a value v >= 2^31 is kept as v - 2^32, so u32::MAX
\* (0xFFFFFFFF) is -1.
U32_MAX == 0 - 1

\* The greatest and the least integer of 32 bits in two's complement.
I32_MAX == 2147483647

I32_MIN == (0 - I32_MAX) - 1

\* a < b as u32 values.
ULt(a, b) == IF (a >= 0) <=> (b >= 0) THEN a < b ELSE a >= 0

\* The build's overflow checks: on (the dev profile) an overflowing += panics,
\* off (the release profile) it wraps.
OverflowChecks == BOOLEAN

\* a + 1 leaves the range of u32.
IncOverflows(a) == a = U32_MAX

\* a + 1 in u32 arithmetic without overflow checks.
WrappingInc(a) == IF a = I32_MAX THEN I32_MIN ELSE a + 1

\* The values of the counter spawn is followed from: the first MaxEntity
\* and the last MaxEntity of the range.
SpawnFollowed(n) == ULt(n, MaxEntity) \/ ULt(U32_MAX - MaxEntity, n)

\* World::new
WorldInit ==
    /\ next_entity = 0
    /\ transforms = EmptyMap
    /\ sprites = EmptyMap

\* A world that has spawned all but the last two identifiers and holds no
\* component.
WorldNearWrap ==
    /\ next_entity = U32_MAX - 1
    /\ transforms = EmptyMap
    /\ sprites = EmptyMap

\* spawn giving the new entity a Transform of its own.
SpawnWithTransform ==
    /\ ~panicked
    /\ SpawnFollowed(next_entity)
    /\ next_entity # U32_MAX
    /\ next_entity' = WrappingInc(next_entity)
    /\ transforms' = Upsert(transforms, next_entity, MkTransform(0, 0, 64, 64, Z(0)))
    /\ ret' = [op |-> "spawn", val |-> next_entity]
    /\ UNCHANGED <<sprites, panicked, drawVars, assetVars, gpuVars>>
    /\ UNCHANGED gameVars

\* World::spawn
Spawn ==
    /\ ~panicked
    /\ SpawnFollowed(next_entity)
    /\ \E checks \in OverflowChecks :
         IF IncOverflows(next_entity) /\ checks
         THEN /\ panicked' = TRUE
              /\ ret' = [op |-> "panic", val |-> [call |-> "spawn"]]
              /\ UNCHANGED next_entity
         ELSE /\ next_entity' = WrappingInc(next_entity)
              /\ ret' = [op |-> "spawn", val |-> next_entity]
              /\ UNCHANGED panicked
    /\ UNCHANGED <<transforms, sprites, drawVars, assetVars, gpuVars>>
    /\ UNCHANGED gameVars

\* World::add_transform
AddTransform(e, t) ==
    /\ ~panicked
    /\ transforms' = Upsert(transforms, e, t)
    /\ ret' = [op |-> "add_transform", val |-> [e |-> e, c |-> t]]
    /\ UNCHANGED <<next_entity, sprites, panicked, drawVars, assetVars, gpuVars>>
    /\ UNCHANGED gameVars

\* World::add_sprite
AddSprite(e, tex) ==
    /\ ~panicked
    /\ sprites' = Upsert(sprites, e, tex)
    /\ ret' = [op |-> "add_sprite", val |-> [e |-> e, c |-> tex]]
    /\ UNCHANGED <<next_entity, transforms, panicked, drawVars, assetVars, gpuVars>>
    /\ UNCHANGED gameVars

\* A call of World::query_drawables.
QueryDrawables ==
    /\ ~panicked
    /\ \E order \in IterOrders(DOMAIN transforms) :
         ret' = [op |-> "query_drawables",
                 val |-> query_drawables(transforms, sprites, order)]
    /\ UNCHANGED <<worldVars, panicked, drawVars, assetVars, gpuVars>>
    /\ UNCHANGED gameVars

\* A call of World::query_drawables_with_z.
QueryDrawablesWithZ ==
    /\ ~panicked
    /\ \E order \in IterOrders(DOMAIN transforms) :
         IF SortPanics(query_drawables(transforms, sprites, order))
         THEN /\ panicked' = TRUE
              /\ ret' = [op |-> "panic", val |-> [call |-> "query_drawables_with_z"]]
         ELSE /\ ret' = [op |-> "query_drawables_with_z",
                         val |-> query_drawables_with_z(transforms, sprites, order)]
              /\ UNCHANGED panicked
    /\ UNCHANGED <<worldVars, drawVars, assetVars, gpuVars>>
    /\ UNCHANGED gameVars

\* ---------------------------------------------------------------- AssetManager

\* CacheKey resolving the path first (a canonicalising cache).
CacheKeyCanonical(path) == FileOf(path)

\* The key under which a path is looked up and inserted: the string itself.
CacheKey(path) == path

\* AssetManager::new
AssetInit ==
    /\ textures = EmptyMap
    /\ shaders = EmptyMap
    /\ heap = EmptyMap
    /\ loaded = {}
    /\ gpu_uploads = 0

\* UploadsOnLoad with a texture created and uploaded on every call.
UploadsOnEveryLoad(hit) == 1

\* The create_texture / write_texture pairs one load_texture call issues: none
\* when the path is found in the cache (the early return), one otherwise.
UploadsOnLoad(hit) == IF hit THEN 0 ELSE 1

\* AssetManager::load_texture
LoadTexture(path) ==
    /\ ~panicked
    /\ IF CacheKey(path) \in DOMAIN textures
       THEN /\ ret' = [op |-> "load_texture",
                       val |-> [path |-> path, handle |-> textures[CacheKey(path)],
                                hit |-> TRUE]]
            /\ loaded' = loaded \cup {<<"texture", path, textures[CacheKey(path)]>>}
            /\ gpu_uploads' = gpu_uploads + UploadsOnLoad(TRUE)
            /\ UNCHANGED <<textures, heap, panicked>>
       ELSE IF ~Readable(path)
       THEN /\ panicked' = TRUE
            /\ ret' = [op |-> "panic", val |-> [call |-> "load_texture"]]
            /\ UNCHANGED <<textures, heap, loaded, gpu_uploads>>
       ELSE \E a \in Addrs \ DOMAIN heap :
            /\ heap' = Upsert(heap, a, [kind |-> "TextureHandle", image |-> FileOf(path)])
            /\ textures' = Upsert(textures, CacheKey(path), a)
            /\ gpu_uploads' = gpu_uploads + UploadsOnLoad(FALSE)
            /\ ret' = [op |-> "load_texture",
                       val |-> [path |-> path, handle |-> a, hit |-> FALSE]]
            /\ loaded' = loaded \cup {<<"texture", path, a>>}
            /\ UNCHANGED panicked
    /\ UNCHANGED <<shaders, worldVars, drawVars, gpuVars>>
    /\ UNCHANGED gameVars

\* ShaderKey resolving the path first.
ShaderKeyCanonical(path) == FileOf(path)

\* The key under which load_shader looks a path up and inserts it: the string
\* itself, in the shader map.
ShaderKey(path) == path

\* AssetManager::load_shader
LoadShader(path) ==
    /\ ~panicked
    /\ IF ShaderKey(path) \in DOMAIN shaders
       THEN /\ ret' = [op |-> "load_shader",
                       val |-> [path |-> path, handle |-> shaders[ShaderKey(path)],
                                hit |-> TRUE]]
            /\ loaded' = loaded \cup {<<"shader", path, shaders[ShaderKey(path)]>>}
            /\ UNCHANGED <<shaders, heap, panicked>>
       ELSE IF ~Readable(path)
       THEN /\ panicked' = TRUE
            /\ ret' = [op |-> "panic", val |-> [call |-> "load_shader"]]
            /\ UNCHANGED <<shaders, heap, loaded>>
       ELSE \E a \in Addrs \ DOMAIN heap :
            /\ heap' = Upsert(heap, a, [kind |-> "ShaderModule", image |-> FileOf(path)])
            /\ shaders' = Upsert(shaders, ShaderKey(path), a)
            /\ ret' = [op |-> "load_shader",
                       val |-> [path |-> path, handle |-> a, hit |-> FALSE]]
            /\ loaded' = loaded \cup {<<"shader", path, a>>}
            /\ UNCHANGED panicked
    /\ UNCHANGED <<textures, gpu_uploads, worldVars, drawVars, gpuVars>>
    /\ UNCHANGED gameVars

\* The cache after the two textures of the examples were loaded, at the
\* addresses the sprites share.
AssetLoaded ==
    /\ textures = [p \in {"black.png", "white.png"} |->
                     IF p = "black.png" THEN 1 ELSE 2]
    /\ shaders = EmptyMap
    /\ heap = [a \in TextureHandles |->
                 [kind |-> "TextureHandle",
                  image |-> IF a = 1 THEN "black.png" ELSE "white.png"]]
    /\ loaded = {<<"texture", "black.png", 1>>, <<"texture", "white.png", 2>>}
    /\ gpu_uploads = 2

\* The addresses an Rc still points to: those of the world's sprites sp and
\* of the two maps of the asset cache.
Referenced(sp) ==
    {sp[e] : e \in DOMAIN sp}
      \cup {textures[p] : p \in DOMAIN textures}
      \cup {shaders[p] : p \in DOMAIN shaders}

\* The heap h after the allocations no Rc points to were freed (Rc's Drop).
DropUnreferenced(h, sp) ==
    [a \in {x \in DOMAIN h : x \in Referenced(sp)} |-> h[a]]

\* The addresses the allocator has for the TextureHandles created outside
\* the asset cache: as many as the sprites can keep alive, so that a handle is
\* created when an address is free and every address comes to be used again.
HandleAddrs == 1 .. MaxEntity

\* examples/test_ecs.rs, lines 23-45: a caller puts the TextureHandle that
\* Renderer::load_texture returns into a new Rc, gives a clone of it to the
\* Sprite of each entity of es and lets go of its own. HashMap::insert hands
\* the Sprite it replaces back to add_sprite, which drops it, and with it
\* the last Rc of a handle no other Sprite shares; the allocator may give a
\* freed address out again.
AddSpritesFresh(es, path) ==
    /\ ~panicked
    /\ gpu_uploads < MaxHandles
    /\ IF ~Readable(path)
       THEN /\ panicked' = TRUE
            /\ ret' = [op |-> "panic", val |-> [call |-> "load_texture"]]
            /\ UNCHANGED <<sprites, heap, loaded, gpu_uploads>>
       ELSE \E a \in HandleAddrs \ DOMAIN heap :
            LET sp == [e \in DOMAIN sprites \cup es |->
                         IF e \in es THEN a ELSE sprites[e]]
                h == Upsert(heap, a, [kind |-> "TextureHandle",
                                      image |-> FileOf(path),
                                      serial |-> gpu_uploads + 1])
            IN  /\ sprites' = sp
                /\ heap' = DropUnreferenced(h, sp)
                /\ gpu_uploads' = gpu_uploads + 1
                /\ loaded' = loaded \cup {<<"texture", path, a>>}
                /\ ret' = [op |-> "add_sprite", val |-> [e |-> es, c |-> a]]
                /\ UNCHANGED panicked
    /\ UNCHANGED <<next_entity, transforms, textures, shaders, drawVars, gpuVars>>
    /\ UNCHANGED gameVars

\* ---------------------------------------------------------------- Batch builder

\* The batch key of a drawable: Rc::as_ptr(&drawable.1) as usize.
BatchKey(d) == d.tex

\* BatchStep merging into any earlier batch of the same key (a global
\* regrouping by texture).
BatchStepGlobal(batches, d) ==
    LET key == BatchKey(d)
        hit == {k \in 1 .. Len(batches) : batches[k].texture_ptr = key}
    IN  IF hit # {}
        THEN [batches EXCEPT ![CHOOSE k \in hit : TRUE].drawables = Append(@, d)]
        ELSE Append(batches, [texture_ptr |-> key, drawables |-> <<d>>])

\* BatchStep putting a drawable at the head of its batch.
BatchStepPrepending(batches, d) ==
    LET key == BatchKey(d)
        n == Len(batches)
    IN  IF n > 0 /\ batches[n].texture_ptr = key
        THEN [batches EXCEPT ![n].drawables = <<d>> \o @]
        ELSE Append(batches, [texture_ptr |-> key, drawables |-> <<d>>])

\* One pass of the batch-creation loop: the drawable joins the last batch
\* when that has its key, and opens a new batch otherwise.
BatchStep(batches, d) ==
    LET key == BatchKey(d)
        n == Len(batches)
    IN  IF n > 0 /\ batches[n].texture_ptr = key
        THEN [batches EXCEPT ![n].drawables = Append(@, d)]
        ELSE Append(batches, [texture_ptr |-> key, drawables |-> <<d>>])

\* The passes of the loop for the drawables lo .. hi, in order (the range is
\* halved, as in InsertRange).
RECURSIVE BatchRange(_, _, _, _)
BatchRange(ds, lo, hi, batches) ==
    IF lo > hi THEN batches
    ELSE IF lo = hi THEN BatchStep(batches, ds[lo])
    ELSE LET mid == (lo + hi) \div 2
             left == BatchRange(ds, lo, mid, batches)
         IN  IF Len(left) >= 0 THEN BatchRange(ds, mid + 1, hi, left) ELSE left

\* The batch-creation loop of draw_sprites_batched over drawables i .. Len(ds).
BuildBatches(ds, i, batches) == BatchRange(ds, i, Len(ds), batches)

\* u16 arithmetic of the running vertex counter.
U16(n) == n % U16_RANGE

\* QuadVertices starting at the bottom-left corner.
QuadVerticesFromBottom(t) ==
    << <<t.x, t.y, 0, 0>>,
       <<t.x + t.w, t.y, 1, 0>>,
       <<t.x + t.w, t.y + t.h, 1, 1>>,
       <<t.x, t.y + t.h, 0, 1>> >>

\* The four vertices pushed for one drawable: top-left, top-right,
\* bottom-right, bottom-left, each [x, y, u, v].
QuadVertices(t) ==
    << <<t.x, t.y + t.h, 0, 0>>,
       <<t.x + t.w, t.y + t.h, 1, 0>>,
       <<t.x + t.w, t.y, 1, 1>>,
       <<t.x, t.y, 0, 1>> >>

\* The six indices pushed for one drawable when the counter reads vct.
QuadIndices(vct) ==
    << vct, U16(vct + 1), U16(vct + 2), U16(vct + 2), U16(vct + 3), vct >>

\* One pass of the inner loop of the aggregation: the quad of drawable d
\* appended to acc = [gv, gi, vct, dcs].
QuadStep(acc, d) ==
    [acc EXCEPT !.gv = @ \o QuadVertices(d.t),
                !.gi = @ \o QuadIndices(acc.vct),
                !.vct = U16(@ + 4)]

RECURSIVE QuadRange(_, _, _, _)
QuadRange(ds, lo, hi, acc) ==
    IF lo > hi THEN acc
    ELSE IF lo = hi THEN QuadStep(acc, ds[lo])
    ELSE LET mid == (lo + hi) \div 2
             left == QuadRange(ds, lo, mid, acc)
         IN  IF left.vct >= 0 THEN QuadRange(ds, mid + 1, hi, left) ELSE left

\* The inner loop of the aggregation: the drawables i .. Len(ds) of one batch
\* appended to acc.
AggQuads(ds, i, acc) == QuadRange(ds, i, Len(ds), acc)

\* CreateBindGroup looking the address up in the bindings of the last pass
\* first (a binding cache keyed by the handle's address).
CachedBindGroup(tex) ==
    LET hit == {k \in 1 .. Len(pass) : pass[k].bind_group.view = tex}
    IN  IF hit # {}
        THEN pass[CHOOSE k \in hit : TRUE].bind_group
        ELSE [view |-> tex, handle |-> heap[tex]]

\* device.create_bind_group over the view and the sampler of the
\* TextureHandle at address tex: the binding refers to the texture of the
\* allocation that lives at the address when the binding is created, whatever
\* is put at the address later. Renderer.texture_bind_group_cache is created
\* empty and neither read nor written after that.
CreateBindGroup(tex) == [view |-> tex, handle |-> heap[tex]]

\* MkDrawCall with the offsets left in elements, not bytes.
MkDrawCallInElements(b, acc0, acc1) ==
    [ texture_bg    |-> CreateBindGroup(b.drawables[1].tex),
      vertex_offset |-> Len(acc0.gv),
      vertex_count  |-> Len(b.drawables) * 4,
      index_offset  |-> Len(acc1.gi) - Len(b.drawables) * 6,
      index_count   |-> Len(b.drawables) * 6 ]

\* The BatchDrawCall pushed for batch b, given the accumulator before (acc0)
\* and after (acc1) its drawables were appended.
MkDrawCall(b, acc0, acc1) ==
    [ texture_bg    |-> CreateBindGroup(b.drawables[1].tex),
      vertex_offset |-> Len(acc0.gv) * VERTEX_SIZE,
      vertex_count  |-> Len(b.drawables) * 4,
      index_offset  |-> (Len(acc1.gi) - Len(b.drawables) * 6) * INDEX_SIZE,
      index_count   |-> Len(b.drawables) * 6 ]

\* One pass of the aggregation loop: the quads of batch b and its
\* BatchDrawCall.
AggStep(acc, b) ==
    LET acc1 == AggQuads(b.drawables, 1, acc)
    IN  [acc1 EXCEPT !.dcs = Append(@, MkDrawCall(b, acc, acc1))]

RECURSIVE AggRange(_, _, _, _)
AggRange(batches, lo, hi, acc) ==
    IF lo > hi THEN acc
    ELSE IF lo = hi THEN AggStep(acc, batches[lo])
    ELSE LET mid == (lo + hi) \div 2
             left == AggRange(batches, lo, mid, acc)
         IN  IF left.vct >= 0 THEN AggRange(batches, mid + 1, hi, left) ELSE left

\* The aggregation loop over batches k .. Len(batches).
Aggregate(batches, k, acc) == AggRange(batches, k, Len(batches), acc)

AggInit == [gv |-> <<>>, gi |-> <<>>, vct |-> 0, dcs |-> <<>>]

\* queue.write_buffer(buffer, 0, data): data replaces the head of the buffer,
\* what lay behind it stays.
WriteBuffer(old, data) ==
    data \o SubSeq(old, Len(data) + 1, Len(old))

\* write_buffer fails validation (and the default handler panics) when the
\* data does not fit the buffer.
WriteOverflows(gv, gi) ==
    \/ Len(gv) * VERTEX_SIZE > BUFFER_SIZE
    \/ Len(gi) * INDEX_SIZE > BUFFER_SIZE

\* MkDraw with the slices taken from the start of the slot.
MkDrawFromStart(dc, s) ==
    [ bind_group   |-> dc.texture_bg,
      slot         |-> s,
      vertex_range |-> <<0, dc.vertex_count * VERTEX_SIZE>>,
      index_range  |-> <<0, dc.index_count * INDEX_SIZE>>,
      indices      |-> <<0, dc.index_count>>,
      base_vertex  |-> 0 ]

\* The draw recorded for one BatchDrawCall in the render pass on slot s.
MkDraw(dc, s) ==
    [ bind_group   |-> dc.texture_bg,
      slot         |-> s,
      vertex_range |-> <<dc.vertex_offset, dc.vertex_offset + dc.vertex_count * VERTEX_SIZE>>,
      index_range  |-> <<dc.index_offset, dc.index_offset + dc.index_count * INDEX_SIZE>>,
      indices      |-> <<0, dc.index_count>>,
      base_vertex  |-> 0 ]

\* The render pass: one draw per BatchDrawCall, in order.
RecordPass(dcs, s) == [k \in 1 .. Len(dcs) |-> MkDraw(dcs[k], s)]

NoFrame ==
    [ called |-> FALSE, slot |-> 0, drawables |-> <<>>, batches |-> <<>>,
      global_vertices |-> <<>>, global_indices |-> <<>>, draw_calls |-> <<>> ]

\* The locals of draw_sprites_batched when it reaches the buffer write, given
\* the drawables as query_drawables_with_z returned them.
BuildFrame(queried, slot) ==
    LET returned == queried
        ds == SortByZ(returned)
        bs == BuildBatches(ds, 1, <<>>)
        agg == Aggregate(bs, 1, AggInit)
    IN  [ called |-> TRUE,
          slot |-> slot,
          drawables |-> ds,
          batches |-> bs,
          global_vertices |-> agg.gv,
          global_indices |-> agg.gi,
          draw_calls |-> agg.dcs ]

\* The effect of Renderer::draw_sprites_batched on the renderer, the world's
\* transform map being iterated in the given order.
DrawBatchedEffect(order) ==
    IF SortPanics(query_drawables(transforms, sprites, order))
    THEN /\ panicked' = TRUE
         /\ UNCHANGED <<vbufs, ibufs, frame, pass, write_inflight>>
    ELSE /\ frame' = BuildFrame(query_drawables_with_z(transforms, sprites, order),
                                current_buffer)
         /\ IF WriteOverflows(frame'.global_vertices, frame'.global_indices)
            THEN /\ panicked' = TRUE
                 /\ UNCHANGED <<vbufs, ibufs, pass, write_inflight>>
            ELSE /\ vbufs' = [vbufs EXCEPT ![current_buffer] =
                                 WriteBuffer(@, frame'.global_vertices)]
                 /\ ibufs' = [ibufs EXCEPT ![current_buffer] =
                                 WriteBuffer(@, frame'.global_indices)]
                 /\ write_inflight' = inflight
                 /\ pass' = RecordPass(frame'.draw_calls, current_buffer)
                 /\ UNCHANGED panicked

\* A call of Renderer::draw_sprites_batched by the game's render callback.
DrawSpritesBatched ==
    /\ ~panicked
    /\ \E order \in IterOrders(DOMAIN transforms) : DrawBatchedEffect(order)
    /\ ret' = [op |-> "draw_sprites_batched", val |-> 0]
    /\ UNCHANGED <<worldVars, current_buffer, assetVars, gpuVars>>
    /\ UNCHANGED gameVars

\* The map iterated from the least entity up, and from the greatest down.
Ascending(n) == [i \in 1 .. n |-> i - 1]

Descending(n) == [i \in 1 .. n |-> n - i]

\* A call of Renderer::draw_sprites_batched on a world of entities 0 .. n-1
\* that are all alike but the last: the iteration order shows only in the
\* place of the last, so the map is iterated upwards or downwards.
DrawSpritesBatchedLarge ==
    /\ ~panicked
    /\ DOMAIN transforms = 0 .. (next_entity - 1)
    /\ \E order \in {Ascending(next_entity), Descending(next_entity)} :
         DrawBatchedEffect(order)
    /\ ret' = [op |-> "draw_sprites_batched", val |-> 0]
    /\ UNCHANGED <<worldVars, current_buffer, assetVars, gpuVars>>
    /\ UNCHANGED gameVars

\* draw_world, lines 498-503: vertex_data of one entity.
EntityVertexData(transform) ==
    << <<transform.x, transform.y + transform.h, 0, 0>>,
       <<transform.x + transform.w, transform.y + transform.h, 1, 0>>,
       <<transform.x + transform.w, transform.y, 1, 1>>,
       <<transform.x, transform.y, 0, 1>> >>

\* draw_world, lines 504-525 and 549-554: the draw recorded for one drawable,
\* with a vertex buffer and a bind group of its own and the renderer's one
\* index buffer.
EntityDraw(d) ==
    [ bind_group    |-> CreateBindGroup(d.tex),
      vertex_buffer |-> EntityVertexData(d.t),
      index_buffer  |-> "index_buffer",
      indices       |-> <<0, 6>>,
      base_vertex   |-> 0 ]

\* A call of Renderer::draw_world: one draw per drawable, in the order
\* query_drawables returns them; the renderer (&self) is left as it is.
DrawWorld ==
    /\ ~panicked
    /\ \E order \in IterOrders(DOMAIN transforms) :
         LET drawables == query_drawables(transforms, sprites, order)
         IN  pass' = [i \in 1 .. Len(drawables) |-> EntityDraw(drawables[i])]
    /\ ret' = [op |-> "draw_world", val |-> 0]
    /\ UNCHANGED <<worldVars, current_buffer, vbufs, ibufs, frame, write_inflight,
                   panicked, assetVars, gpuVars>>
    /\ UNCHANGED gameVars

\* Renderer::new, lines 228-289: the slots and the active index.
RendererBuffers ==
    /\ current_buffer = 0
    /\ vbufs = [s \in 0 .. (NUM_SLOTS - 1) |-> <<>>]
    /\ ibufs = [s \in 0 .. (NUM_SLOTS - 1) |-> <<>>]
    /\ frame = NoFrame
    /\ pass = <<>>
    /\ write_inflight = {}

\* No aggregation loop is followed.
NotAggregating == [active |-> FALSE, before |-> 0, acc |-> AggInit]

\* A renderer no call of which is in progress.
RendererInit ==
    /\ RendererBuffers
    /\ aggregation = NotAggregating

\* The number of quads the u16 counter can count: 65536 / 4.
U16_QUADS == U16_RANGE \div 4

\* The aggregation loop after it appended n0 drawables: the counter stands at
\* 4 * n0, no addition having left the range of u16 so far; of the vectors,
\* what is pushed from here on is kept.
AggregationAfter(n0) ==
    [active |-> TRUE, before |-> n0, acc |-> [AggInit EXCEPT !.vct = 4 * n0]]

\* Where the loop is followed from: the start, MaxOverflow drawables before
\* a slot is full, and MaxOverflow drawables before the counter's range ends.
AggregationStarts ==
    {0, (BUFFER_SIZE \div (4 * VERTEX_SIZE)) - MaxOverflow, U16_QUADS - MaxOverflow}

\* vertex_count_total += 4 leaves the range of u16.
CounterOverflows(vct) == vct + 4 >= U16_RANGE

\* draw_sprites_batched, lines 649-663: one pass of the inner loop of the
\* aggregation, for a drawable of Transform t. The loop runs before the
\* buffer write and nothing bounds the number of drawables; with overflow
\* checks the += 4 that leaves the range panics, without them it wraps.
AggregateDrawable(t) ==
    /\ ~panicked
    /\ aggregation.active
    /\ Len(aggregation.acc.gi) < 6 * 2 * MaxOverflow
    /\ \E checks \in OverflowChecks :
         IF CounterOverflows(aggregation.acc.vct) /\ checks
         THEN /\ panicked' = TRUE
              /\ aggregation' =
                    [aggregation EXCEPT
                       !.acc.gv = @ \o QuadVertices(t),
                       !.acc.gi = @ \o QuadIndices(aggregation.acc.vct)]
              /\ ret' = [op |-> "panic", val |-> [call |-> "draw_sprites_batched"]]
         ELSE /\ aggregation' =
                    [aggregation EXCEPT !.acc = QuadStep(@, [t |-> t, tex |-> 1])]
              /\ ret' = [op |-> "push_quad", val |-> aggregation'.acc.vct]
              /\ UNCHANGED panicked
    /\ UNCHANGED <<worldVars, drawVars, assetVars, gpuVars>>
    /\ UNCHANGED <<inputVars, surfVars, hostVars, loopVars, dispatchVars>>

\* ---------------------------------------------------------------- Renderer::render

GpuInit ==
    /\ pc = "idle"
    /\ inflight = {}
    /\ submitted = 0
    /\ signalled = FALSE
    /\ completed = 0
    /\ slots_used = <<>>
    /\ events = <<>>

\* What surface.get_current_texture may do at the start of a frame: succeed,
\* fail and succeed after the reconfigure, or fail twice.
AcquireOutcomes == {"ok", "retry_ok", "fatal"}

\* An acquire that reconfigures and retries a second time.
AcquireEventsRetryTwice(outcome) ==
    IF outcome = "ok" THEN <<"acquire">>
    ELSE IF outcome = "retry_ok"
    THEN <<"acquire_failed", "configure", "acquire_failed", "configure", "acquire">>
    ELSE <<"acquire_failed", "configure", "acquire_failed">>

\* The events of the acquire, for each outcome.
AcquireEvents(outcome) ==
    IF outcome = "ok" THEN <<"acquire">>
    ELSE IF outcome = "retry_ok" THEN <<"acquire_failed", "configure", "acquire">>
    ELSE <<"acquire_failed", "configure", "acquire_failed">>

\* render, lines 320-329: acquire the surface image, with one reconfigure
\* and retry; expect panics when the retry fails.
RenderAcquire(outcome) ==
    /\ ~panicked
    /\ pc = "idle"
    /\ completed < MaxFrames
    /\ events' = AcquireEvents(outcome)
    /\ IF outcome = "fatal"
       THEN panicked' = TRUE /\ UNCHANGED pc
       ELSE pc' = "acquired" /\ UNCHANGED panicked
    /\ UNCHANGED <<worldVars, drawVars, assetVars, ret,
                   inflight, submitted, signalled, completed, slots_used>>
    /\ UNCHANGED gameVars

\* render, line 331: draw_sprites_batched on the active slot.
RenderDraw ==
    /\ ~panicked
    /\ pc = "acquired"
    /\ \E order \in IterOrders(DOMAIN transforms) : DrawBatchedEffect(order)
    /\ IF panicked' THEN UNCHANGED <<pc, slots_used, events>>
       ELSE /\ pc' = "recorded"
            /\ slots_used' = Append(slots_used, current_buffer)
            /\ events' = Append(events, "record")
    /\ UNCHANGED <<worldVars, current_buffer, assetVars, ret,
                   inflight, submitted, signalled, completed>>
    /\ UNCHANGED gameVars

\* render, line 333: queue.submit; the GPU starts on the frame's commands,
\* which read the slot the pass bound.
RenderSubmit ==
    /\ ~panicked
    /\ pc = "recorded"
    /\ inflight' = inflight \cup {[id |-> submitted + 1, slot |-> frame.slot]}
    /\ submitted' = submitted + 1
    /\ pc' = "submitted"
    /\ events' = Append(events, "submit")
    /\ UNCHANGED <<worldVars, drawVars, assetVars, ret, panicked,
                   signalled, completed, slots_used>>
    /\ UNCHANGED gameVars

\* render, line 334: output.present().
RenderPresent ==
    /\ ~panicked
    /\ pc = "submitted"
    /\ pc' = "presented"
    /\ events' = Append(events, "present")
    /\ UNCHANGED <<worldVars, drawVars, assetVars, ret, panicked,
                   inflight, submitted, signalled, completed, slots_used>>
    /\ UNCHANGED gameVars

\* render, lines 337-341: register the work-done callback and block on the
\* receiver.
RenderWait ==
    /\ ~panicked
    /\ pc = "presented"
    /\ pc' = "waiting"
    /\ signalled' = FALSE
    /\ events' = Append(events, "wait")
    /\ UNCHANGED <<worldVars, drawVars, assetVars, ret, panicked,
                   inflight, submitted, completed, slots_used>>
    /\ UNCHANGED gameVars

\* The GPU retires its oldest submission.
GpuRetire ==
    /\ inflight # {}
    /\ LET oldest == CHOOSE s \in inflight : \A t \in inflight : s.id <= t.id
       IN  inflight' = inflight \ {oldest}
    /\ UNCHANGED <<worldVars, drawVars, assetVars, ret, panicked,
                   pc, submitted, signalled, completed, slots_used, events>>
    /\ UNCHANGED gameVars

\* The callback of on_submitted_work_done runs, once all submitted work is
\* done, and sends on the channel.
WorkDoneCallback ==
    /\ ~panicked
    /\ pc = "waiting"
    /\ ~signalled
    /\ inflight = {}
    /\ signalled' = TRUE
    /\ events' = Append(events, "completion")
    /\ UNCHANGED <<worldVars, drawVars, assetVars, ret, panicked,
                   pc, inflight, submitted, completed, slots_used>>
    /\ UNCHANGED gameVars

\* block_on without the wait: the receiver is taken to be ready at once.
ReceiverNotAwaited == TRUE

\* A receiver no send ever reaches.
ReceiverNeverReady == FALSE

\* pollster::block_on(receiver) returns: the callback has sent.
ReceiverReady == signalled

\* A flip that leaves the index where it is.
NextSlotStuck(cb) == cb % NUM_SLOTS

\* render, line 346: the slot index after the flip.
NextSlot(cb) == (cb + 1) % NUM_SLOTS

\* render, lines 341-347: block_on returns, the slot index is flipped and
\* render returns.
RenderFlip ==
    /\ ~panicked
    /\ pc = "waiting"
    /\ ReceiverReady
    /\ current_buffer' = NextSlot(current_buffer)
    /\ pc' = "idle"
    /\ completed' = completed + 1
    /\ events' = Append(events, "flip")
    /\ UNCHANGED <<worldVars, vbufs, ibufs, frame, pass, write_inflight, assetVars,
                   ret, panicked, inflight, submitted, signalled, slots_used>>
    /\ UNCHANGED gameVars

\* ---------------------------------------------------------------- run_game

\* The logical size Renderer::new computes its first uniform from.
LOGICAL_WIDTH == 800

LOGICAL_HEIGHT == 600

\* 2.0 / d as f32, kept as the fraction <<2, d>>; <<2, 0>> is +inf.
Frac(n, d) == <<n, d>>

\* The scale [2.0 / w, 2.0 / h].
Scale(w, h) == <<Frac(2, w), Frac(2, h)>>

MkSize(w, h) == [width |-> w, height |-> h]

\* GameConfig::default
DefaultConfig ==
    [window_width |-> 800, window_height |-> 600,
     logical_width |-> 800, logical_height |-> 600,
     target_fps |-> 60, stretch_mode |-> FALSE]

\* The configurations run_game is started with.
GameConfigs ==
    {[DefaultConfig EXCEPT !.logical_width = l[1], !.logical_height = l[2],
                           !.stretch_mode = st] :
        l \in {<<800, 600>>, <<320, 240>>}, st \in BOOLEAN}

\* The scale factors of the display.
ScaleFactors == {1, 2}

\* window.inner_size() of a window built with_inner_size(LogicalSize(w, h)):
\* the physical size is the logical size times the scale factor.
InnerSize(c, sf) == MkSize(c.window_width * sf, c.window_height * sf)

\* The physical sizes a Resized event carries.
ResizeSizes == {MkSize(1024, 768), MkSize(400, 300), MkSize(0, 0), MkSize(0, 768)}

KeyCodes == {"A", "B"}

MouseButtons == {"Left", "Right"}

\* The positions a CursorMoved event carries.
CursorPositions == {<<10, 20>>, <<30, 40>>}

ElementStates == {"Pressed", "Released"}

\* The window events winit delivers; a KeyboardInput may carry no
\* virtual_keycode ("None").
WindowEvents ==
    {[kind |-> "Resized", size |-> sz] : sz \in ResizeSizes}
    \cup {[kind |-> "KeyboardInput", key |-> k, state |-> st] :
            k \in KeyCodes \cup {"None"}, st \in ElementStates}
    \cup {[kind |-> "MouseInput", button |-> b, state |-> st] :
            b \in MouseButtons, st \in ElementStates}
    \cup {[kind |-> "CursorMoved", position |-> pos] : pos \in CursorPositions}
    \cup {[kind |-> "CloseRequested"], [kind |-> "Focused"]}

MkWindowEvent(we) == [type |-> "WindowEvent", event |-> we]

Contains(s, x) == \E i \in 1 .. Len(s) : s[i] = x

Retain(s, x) == SelectSeq(s, LAMBDA k : k # x)

\* PressRelease pushing on every press.
PressReleaseAlwaysPush(s, x, state) ==
    IF state = "Pressed" THEN Append(s, x) ELSE Retain(s, x)

\* Vec: push when pressed and absent, retain the others when released.
PressRelease(s, x, state) ==
    IF state = "Pressed"
    THEN IF Contains(s, x) THEN s ELSE Append(s, x)
    ELSE Retain(s, x)

\* InputState::update
InputUpdate(we) ==
    /\ keys_pressed' =
         IF we.kind = "KeyboardInput" /\ we.key # "None"
         THEN PressRelease(keys_pressed, we.key, we.state)
         ELSE keys_pressed
    /\ mouse_buttons' =
         IF we.kind = "MouseInput"
         THEN PressRelease(mouse_buttons, we.button, we.state)
         ELSE mouse_buttons
    /\ cursor_position' =
         IF we.kind = "CursorMoved" THEN we.position ELSE cursor_position

\* ---------------------------------------------------------------- InputDispatcher

\* The InputEvents dispatch pushes for a window event: one for a keyboard
\* event that carries a virtual_keycode, for a cursor move and for a mouse
\* button event, none for any other.
DispatchPushes(we) ==
    IF we.kind = "KeyboardInput" /\ we.key # "None"
    THEN IF we.state = "Pressed"
         THEN <<[kind |-> "KeyPressed", key |-> we.key]>>
         ELSE <<[kind |-> "KeyReleased", key |-> we.key]>>
    ELSE IF we.kind = "CursorMoved"
    THEN <<[kind |-> "MouseMoved", x |-> we.position[1], y |-> we.position[2]]>>
    ELSE IF we.kind = "MouseInput"
    THEN IF we.state = "Pressed"
         THEN <<[kind |-> "MouseButtonPressed", button |-> we.button]>>
         ELSE <<[kind |-> "MouseButtonReleased", button |-> we.button]>>
    ELSE <<>>

\* A push at the front of the Vec.
PushFront(q, es) == es \o q

\* self.events.push(..) for each of es.
Push(q, es) == q \o es

\* InputDispatcher::dispatch
Dispatch(we) ==
    /\ ~panicked
    /\ Len(dispatch_queue) < MaxQueue
    /\ dispatch_queue' = Push(dispatch_queue, DispatchPushes(we))
    /\ ret' = [op |-> "dispatch", val |-> 0]
    /\ UNCHANGED <<worldVars, drawVars, assetVars, gpuVars, panicked, inputVars,
                   surfVars, hostVars, loopVars, aggVars>>

\* InputDispatcher::drain: self.events.drain(..).collect()
Drain ==
    /\ ~panicked
    /\ ret' = [op |-> "drain", val |-> dispatch_queue]
    /\ dispatch_queue' = <<>>
    /\ UNCHANGED <<worldVars, drawVars, assetVars, gpuVars, panicked, inputVars,
                   surfVars, hostVars, loopVars, aggVars>>

\* resize with the scale always taken from the physical size.
ResizeScalePhysical(new_size, c) == Scale(new_size.width, new_size.height)

\* resize, lines 307-313: the scale written to the uniform buffer.
ResizeScale(new_size, c) ==
    IF c.stretch_mode
    THEN Scale(new_size.width, new_size.height)
    ELSE Scale(c.logical_width, c.logical_height)

\* resize without its guard: the surface is configured to whatever size
\* comes, and the scale written for it.
ResizeUnguarded(new_size) ==
    /\ surface_config' = new_size
    /\ uniform' = ResizeScale(new_size, cfg)

\* resize reconfiguring the surface and leaving the uniform buffer as it is.
ResizeWithoutUniform(new_size) ==
    IF new_size.width > 0 /\ new_size.height > 0
    THEN /\ surface_config' = new_size
         /\ UNCHANGED uniform
    ELSE UNCHANGED surfVars

\* Renderer::resize
Resize(new_size) ==
    IF new_size.width > 0 /\ new_size.height > 0
    THEN /\ surface_config' = new_size
         /\ uniform' = ResizeScale(new_size, cfg)
    ELSE UNCHANGED surfVars

\* A call of Renderer::resize by the host itself, with its configuration.
RendererResize(new_size) ==
    /\ ~panicked
    /\ Resize(new_size)
    /\ ret' = [op |-> "resize", val |-> new_size]
    /\ UNCHANGED <<worldVars, drawVars, assetVars, gpuVars, panicked, inputVars,
                   dispatchVars, aggVars, hostVars, loopVars>>

\* run_game, lines 41-45: the scale of the start.
InitialScale(c) ==
    IF c.stretch_mode
    THEN Scale(c.window_width, c.window_height)
    ELSE Scale(c.logical_width, c.logical_height)

\* run_game, line 49: the frame duration in milliseconds.
TargetFrameDuration(c) == 1000 \div c.target_fps

\* The configurations of a low frame rate.
SlowConfigs == {[DefaultConfig EXCEPT !.target_fps = f] : f \in 1 .. MaxSlowFps}

\* The game.update calls followed: MaxUpdates of them, and one more than a
\* second's worth where the frame rate is low.
UpdatesFollowed(c) ==
    IF c.target_fps <= MaxSlowFps THEN c.target_fps + 1 ELSE MaxUpdates

Poll == [kind |-> "Poll", until |-> 0]

WaitUntil(t) == [kind |-> "WaitUntil", until |-> t]

Exit == [kind |-> "Exit", until |-> 0]

\* run_game, lines 28-37: the window is built, Renderer::new has configured
\* the surface to the window's physical size and filled the uniform buffer
\* from the fixed logical size; InputState::default.
EngineInit(c, sf) ==
    /\ cfg = c
    /\ scale_factor = sf
    /\ phase = "new"
    /\ surface_config = InnerSize(c, sf)
    /\ uniform = Scale(LOGICAL_WIDTH, LOGICAL_HEIGHT)
    /\ keys_pressed = <<>>
    /\ mouse_buttons = <<>>
    /\ cursor_position = <<>>
    /\ dispatch_queue = <<>>
    /\ now = 0
    /\ last_frame_time = 0
    /\ control_flow = Poll
    /\ redraw_requested = FALSE
    /\ update_count = 0
    /\ redraws = 0
    /\ update_times = <<>>

\* run_game, lines 39-50: update_uniform with the scale of the start, and
\* the first last_frame_time; the event loop runs from here on.
RunGameSetup ==
    /\ ~panicked
    /\ phase = "new"
    /\ phase' = "running"
    /\ uniform' = InitialScale(cfg)
    /\ last_frame_time' = now
    /\ ret' = [op |-> "run_game", val |-> 0]
    /\ UNCHANGED <<worldVars, drawVars, assetVars, gpuVars, panicked, inputVars,
                   dispatchVars, aggVars, surface_config, cfg, scale_factor, now,
                   control_flow, redraw_requested, update_count, redraws,
                   update_times>>

\* The entities TestSpriteZ::update creates on its first call.
SpriteZEntities(black, white) ==
    <<[t |-> MkTransform(100, 100, 200, 200, Z(2)), tex |-> black],
      [t |-> MkTransform(150, 150, 200, 200, Z(5)), tex |-> white],
      [t |-> MkTransform(200, 200, 200, 200, Z(8)), tex |-> black]>>

\* TestSpriteZ::update: count the call; the first call loads the two
\* textures into its (empty) asset cache and spawns the three sprites.
GameUpdate ==
    /\ update_count' = update_count + 1
    /\ IF update_count + 1 = 1
       THEN \E black \in Addrs \ DOMAIN heap :
            \E white \in Addrs \ (DOMAIN heap \cup {black}) :
            LET es == SpriteZEntities(black, white)
                ids == next_entity .. (next_entity + Len(es) - 1)
            IN  /\ heap' = [a \in DOMAIN heap \cup {black, white} |->
                              IF a = black
                              THEN [kind |-> "TextureHandle", image |-> "black.png"]
                              ELSE IF a = white
                              THEN [kind |-> "TextureHandle", image |-> "white.png"]
                              ELSE heap[a]]
                /\ textures' = Upsert(Upsert(textures, CacheKey("black.png"), black),
                                      CacheKey("white.png"), white)
                /\ loaded' = loaded \cup {<<"texture", "black.png", black>>,
                                          <<"texture", "white.png", white>>}
                /\ gpu_uploads' = gpu_uploads + 2
                /\ next_entity' = next_entity + Len(es)
                /\ transforms' = [e \in DOMAIN transforms \cup ids |->
                                    IF e \in ids THEN es[e - next_entity + 1].t
                                    ELSE transforms[e]]
                /\ sprites' = [e \in DOMAIN sprites \cup ids |->
                                 IF e \in ids THEN es[e - next_entity + 1].tex
                                 ELSE sprites[e]]
                /\ UNCHANGED shaders
       ELSE UNCHANGED <<worldVars, assetVars>>

\* The arm of the match in run_game's callback an event is handled by: the
\* first whose pattern matches.
MatchArm(event) ==
    IF event.type = "WindowEvent" THEN "WindowEvent"
    ELSE IF event.type = "MainEventsCleared" THEN "MainEventsCleared"
    ELSE IF event.type = "RedrawRequested" THEN "RedrawRequested"
    ELSE IF event.type = "WindowEvent" /\ event.event.kind = "CloseRequested"
    THEN "CloseRequested"
    ELSE "_"

\* run_game, lines 55-60: the input state is updated and a Resized event
\* resizes the renderer.
OnWindowEvent(we) ==
    /\ InputUpdate(we)
    /\ IF we.kind = "Resized" THEN Resize(we.size) ELSE UNCHANGED surfVars
    /\ control_flow' = Poll
    /\ UNCHANGED <<worldVars, drawVars, assetVars, gpuVars, panicked,
                   last_frame_time, redraw_requested, update_count, redraws,
                   update_times>>

\* run_game, lines 61-71: wait for the rest of the frame duration, or
\* update the game and request a redraw.
OnMainEventsCleared ==
    /\ LET elapsed == now - last_frame_time
       IN  IF elapsed < TargetFrameDuration(cfg)
           THEN /\ control_flow' =
                     WaitUntil(now + TargetFrameDuration(cfg) - elapsed)
                /\ UNCHANGED <<last_frame_time, update_count, redraw_requested,
                               worldVars, assetVars, update_times>>
           ELSE /\ update_count < UpdatesFollowed(cfg)
                /\ last_frame_time' = now
                /\ GameUpdate
                /\ update_times' =
                     Append(SelectSeq(update_times, LAMBDA t : now - t < 1000), now)
                /\ redraw_requested' = TRUE
                /\ control_flow' = Poll
    /\ UNCHANGED <<drawVars, gpuVars, panicked, inputVars, surfVars, redraws>>

\* run_game, lines 72-85: acquire the surface image (one reconfigure and
\* retry), let the game record its pass (TestSpriteZ::render calls
\* draw_sprites_batched), submit and present.
OnRedrawRequested ==
    /\ redraws < MaxRedraws
    /\ \E outcome \in AcquireOutcomes :
         IF outcome = "fatal"
         THEN /\ panicked' = TRUE
              /\ events' = AcquireEvents(outcome)
              /\ UNCHANGED <<vbufs, ibufs, frame, pass, write_inflight,
                             inflight, submitted, slots_used, redraws>>
         ELSE /\ \E order \in IterOrders(DOMAIN transforms) :
                   DrawBatchedEffect(order)
              /\ IF panicked'
                 THEN UNCHANGED <<inflight, submitted, slots_used, redraws, events>>
                 ELSE /\ inflight' = inflight \cup
                            {[id |-> submitted + 1, slot |-> frame'.slot]}
                      /\ submitted' = submitted + 1
                      /\ slots_used' = Append(slots_used, current_buffer)
                      /\ redraws' = redraws + 1
                      /\ events' = AcquireEvents(outcome)
                                     \o <<"record", "submit", "present">>
    /\ redraw_requested' = FALSE
    /\ control_flow' = Poll
    /\ UNCHANGED <<current_buffer, pc, signalled, completed, worldVars, assetVars,
                   inputVars, surfVars, last_frame_time, update_count,
                   update_times>>

\* run_game, lines 86-91: the arm for CloseRequested.
OnCloseRequested ==
    /\ control_flow' = Exit
    /\ UNCHANGED <<worldVars, drawVars, assetVars, gpuVars, panicked, inputVars,
                   surfVars, last_frame_time, redraw_requested, update_count,
                   redraws, update_times>>

\* run_game, line 92: any other event.
OnOtherEvent ==
    /\ control_flow' = Poll
    /\ UNCHANGED <<worldVars, drawVars, assetVars, gpuVars, panicked, inputVars,
                   surfVars, last_frame_time, redraw_requested, update_count,
                   redraws, update_times>>

\* run_game, lines 52-94: one call of the event loop's callback.
EventLoopCallback(event) ==
    /\ ~panicked
    /\ phase = "running"
    /\ control_flow.kind # "Exit"
    /\ LET arm == MatchArm(event)
       IN  IF arm = "WindowEvent" THEN OnWindowEvent(event.event)
           ELSE IF arm = "MainEventsCleared" THEN OnMainEventsCleared
           ELSE IF arm = "RedrawRequested" THEN OnRedrawRequested
           ELSE IF arm = "CloseRequested" THEN OnCloseRequested
           ELSE OnOtherEvent
    /\ ret' = [op |-> "event", val |-> MatchArm(event)]
    /\ UNCHANGED <<cfg, scale_factor, phase, now, dispatchVars, aggVars>>

\* The steps the clock advances by between two callbacks.
ClockSteps == {8, 16}

\* Time passes.
Tick(d) ==
    /\ now + d <= MaxClock
    /\ now' = now + d
    /\ UNCHANGED <<worldVars, drawVars, assetVars, gpuVars, ret, panicked,
                   inputVars, dispatchVars, aggVars, surfVars, hostVars, last_frame_time,
                   control_flow, redraw_requested, update_count, redraws,
                   update_times>>

\* The steps the clock advances by where the frame rate is low.
SlowClockSteps == {333, 500}

\* Time passes, in the steps of a low frame rate.
SlowTick(d) ==
    /\ now + d <= MaxSlowClock
    /\ now' = now + d
    /\ UNCHANGED <<worldVars, drawVars, assetVars, gpuVars, ret, panicked,
                   inputVars, dispatchVars, aggVars, surfVars, hostVars, last_frame_time,
                   control_flow, redraw_requested, update_count, redraws,
                   update_times>>

\* ---------------------------------------------------------------- claims: batches

\* The number of drawables in the batches before batch k.
RECURSIVE DrawablesBefore(_, _)
DrawablesBefore(bs, k) ==
    IF k <= 1 THEN 0
    ELSE DrawablesBefore(bs, k - 1) + Len(bs[k - 1].drawables)

\* The drawables of the batches, in batch order.
RECURSIVE FlattenBatches(_, _)
FlattenBatches(bs, k) ==
    IF k > Len(bs) THEN <<>>
    ELSE bs[k].drawables \o FlattenBatches(bs, k + 1)

\* The six indices written for the i-th quad (0-indexed) of batch k.
IndicesOfQuad(k, i) ==
    LET at == 6 * (DrawablesBefore(frame.batches, k) + i)
    IN  SubSeq(frame.global_indices, at + 1, at + 6)

\* C4: in every batch of a frame, the first and every later one, the six
\* indices written for the i-th quad of the batch (0-indexed) are
\* 4i, 4i+1, 4i+2, 4i+2, 4i+3, 4i: the numbering restarts at 0 in each batch.
C4_IndexPatternRestartsPerBatch ==
    frame.called =>
        \A k \in 1 .. Len(frame.batches) :
            \A i \in 0 .. (Len(frame.batches[k].drawables) - 1) :
                IndicesOfQuad(k, i) =
                    <<4 * i, 4 * i + 1, 4 * i + 2, 4 * i + 2, 4 * i + 3, 4 * i>>

\* C5: the batches are the maximal runs of equal texture of the z-sorted
\* drawables: none is empty, every drawable of a batch has the batch's key,
\* adjacent batches differ in key, the batches in order spell the sorted
\* sequence, and a batch of n drawables is drawn with 4n vertices and 6n indices.
C5_BatchesAreMaximalRuns ==
    frame.called =>
        LET bs == frame.batches
        IN  /\ \A k \in 1 .. Len(bs) :
                 /\ Len(bs[k].drawables) >= 1
                 /\ \A i \in 1 .. Len(bs[k].drawables) :
                      bs[k].drawables[i].tex = bs[k].texture_ptr
            /\ \A k \in 1 .. (Len(bs) - 1) : bs[k].texture_ptr # bs[k + 1].texture_ptr
            /\ FlattenBatches(bs, 1) = frame.drawables
            /\ \A i, j \in 1 .. Len(frame.drawables) :
                 (i < j /\ frame.drawables[i].tex = frame.drawables[j].tex
                        /\ \E m \in (i + 1) .. (j - 1) :
                              frame.drawables[m].tex # frame.drawables[i].tex)
                 => \E k \in 1 .. Len(bs) :
                        /\ DrawablesBefore(bs, k) < i
                        /\ i <= DrawablesBefore(bs, k) + Len(bs[k].drawables)
                        /\ j > DrawablesBefore(bs, k) + Len(bs[k].drawables)
            /\ Len(frame.draw_calls) = Len(bs)
            /\ \A k \in 1 .. Len(bs) :
                 /\ frame.draw_calls[k].vertex_count = 4 * Len(bs[k].drawables)
                 /\ frame.draw_calls[k].index_count = 6 * Len(bs[k].drawables)
            /\ Len(frame.global_vertices) = 4 * Len(frame.drawables)
            /\ Len(frame.global_indices) = 6 * Len(frame.drawables)

\* C5 witness: three drawables of one texture followed by one of another
\* gave two batches, of 12 vertices / 18 indices and of 4 / 6.
C5_Witness ==
    /\ frame.called
    /\ Len(frame.batches) = 2
    /\ Len(frame.batches[1].drawables) = 3
    /\ Len(frame.batches[2].drawables) = 1
    /\ frame.draw_calls[1].vertex_count = 12
    /\ frame.draw_calls[1].index_count = 18
    /\ frame.draw_calls[2].vertex_count = 4
    /\ frame.draw_calls[2].index_count = 6

\* The number of positions of s that hold x.
CountIn(s, x) == Cardinality({i \in 1 .. Len(s) : s[i] = x})

\* The batch that holds position i of the concatenated drawables.
BatchOfPosition(bs, i) ==
    CHOOSE k \in 1 .. Len(bs) :
        /\ DrawablesBefore(bs, k) < i
        /\ i <= DrawablesBefore(bs, k) + Len(bs[k].drawables)

\* C13: the drawables of a frame's batches, in batch order, are the world's
\* drawables, each once, in ascending z; of two drawables the one of smaller
\* z is in the same or an earlier batch, and the pass draws the batches in
\* their order.
C13_BatchesSpellSortedDrawables ==
    frame.called =>
        LET bs == frame.batches
            flat == FlattenBatches(bs, 1)
        IN  /\ Len(flat) = Cardinality((DOMAIN transforms) \cap (DOMAIN sprites))
            /\ \A e \in (DOMAIN transforms) \cap (DOMAIN sprites) :
                 LET d == [t |-> transforms[e], tex |-> sprites[e]]
                 IN  CountIn(flat, d) =
                       Cardinality({o \in (DOMAIN transforms) \cap (DOMAIN sprites) :
                                      transforms[o] = d.t /\ sprites[o] = d.tex})
            /\ \A i \in 1 .. (Len(flat) - 1) :
                 ~flat[i].t.z.nan /\ ~flat[i + 1].t.z.nan
                 /\ flat[i].t.z.v <= flat[i + 1].t.z.v
            /\ \A i, j \in 1 .. Len(flat) :
                 (~flat[i].t.z.nan /\ ~flat[j].t.z.nan /\ flat[i].t.z.v < flat[j].t.z.v)
                 => BatchOfPosition(bs, i) <= BatchOfPosition(bs, j)
            /\ Len(pass) = Len(bs)
            /\ \A k \in 1 .. Len(bs) : pass[k].bind_group.view = bs[k].texture_ptr

\* C13 witness: a frame of three batches whose first and last have the same
\* texture, the drawables' z rising across them.
C13_Witness ==
    /\ frame.called
    /\ Len(frame.batches) = 3
    /\ frame.batches[1].texture_ptr = frame.batches[3].texture_ptr
    /\ frame.batches[1].drawables[1].t.z = Z(2)
    /\ frame.batches[3].drawables[1].t.z = Z(5)
    /\ Len(frame.batches[1].drawables) = 2
    /\ Len(pass) = 3

\* The vertices of the drawables i .. Len(ds), four each.
RECURSIVE VerticesOf(_, _)
VerticesOf(ds, i) ==
    IF i > Len(ds) THEN <<>>
    ELSE QuadVertices(ds[i].t) \o VerticesOf(ds, i + 1)

\* C14: a completed draw_sprites_batched has recorded one pass with one
\* indexed draw per batch, in batch order: draw k binds batch k's texture and
\* the active slot, draws indices 0 .. 6n of a batch of n drawables, and its
\* vertex and index slices start at the byte offsets recorded for the
\* batch, where the slot holds the batch's 4n vertices and 6n indices; there
\* are no more draws than drawables, and none for an empty world.
C14_OneDrawPerBatch ==
    (frame.called /\ ~panicked) =>
        LET bs == frame.batches
        IN  /\ Len(pass) = Len(bs)
            /\ Len(pass) <= Len(frame.drawables)
            /\ (DOMAIN transforms) \cap (DOMAIN sprites) = {} => Len(pass) = 0
            /\ \A k \in 1 .. Len(bs) :
                 LET n == Len(bs[k].drawables)
                     before == DrawablesBefore(bs, k)
                 IN  /\ pass[k].bind_group.view = bs[k].texture_ptr
                     /\ pass[k].slot = frame.slot
                     /\ pass[k].indices = <<0, 6 * n>>
                     /\ pass[k].vertex_range[1] = frame.draw_calls[k].vertex_offset
                     /\ pass[k].index_range[1] = frame.draw_calls[k].index_offset
                     /\ pass[k].vertex_range[1] = before * 4 * VERTEX_SIZE
                     /\ pass[k].index_range[1] = before * 6 * INDEX_SIZE
                     /\ pass[k].vertex_range[2] - pass[k].vertex_range[1]
                          = n * 4 * VERTEX_SIZE
                     /\ pass[k].index_range[2] - pass[k].index_range[1]
                          = n * 6 * INDEX_SIZE
                     /\ SubSeq(vbufs[frame.slot], before * 4 + 1, (before + n) * 4)
                          = VerticesOf(bs[k].drawables, 1)
                     /\ SubSeq(ibufs[frame.slot], before * 6 + 1, (before + n) * 6)
                          = SubSeq(frame.global_indices, before * 6 + 1, (before + n) * 6)

\* C14 witness: a frame of two batches, of two drawables and of one; the
\* second draw's slices start at bytes 128 and 24 and it draws 6 indices.
C14_Witness ==
    /\ frame.called /\ ~panicked
    /\ Len(pass) = 2
    /\ Len(frame.batches[1].drawables) = 2
    /\ pass[2].vertex_range = <<128, 192>>
    /\ pass[2].index_range = <<24, 36>>
    /\ pass[2].indices = <<0, 6>>

\* The byte after the vertices, and after the indices, of a BatchDrawCall.
VertexEnd(dc) == dc.vertex_offset + dc.vertex_count * VERTEX_SIZE

IndexEnd(dc) == dc.index_offset + dc.index_count * INDEX_SIZE

\* C25: the ranges recorded per batch tile the aggregated data: batch k's
\* vertex bytes start at 64 times, and its index bytes at 12 times, the
\* number of drawables in the batches before it; the first batch starts at 0,
\* each batch starts where the one before it ends, and the last ends at the
\* number of bytes written to the slot.
C25_BatchRangesTile ==
    frame.called =>
        LET bs == frame.batches
            dcs == frame.draw_calls
            n == Len(dcs)
        IN  /\ n = Len(bs)
            /\ \A k \in 1 .. n :
                 /\ dcs[k].vertex_offset = 64 * DrawablesBefore(bs, k)
                 /\ dcs[k].index_offset = 12 * DrawablesBefore(bs, k)
            /\ n > 0 => dcs[1].vertex_offset = 0 /\ dcs[1].index_offset = 0
            /\ \A k \in 1 .. (n - 1) :
                 /\ VertexEnd(dcs[k]) = dcs[k + 1].vertex_offset
                 /\ IndexEnd(dcs[k]) = dcs[k + 1].index_offset
            /\ n > 0 =>
                 /\ VertexEnd(dcs[n]) = Len(frame.global_vertices) * VERTEX_SIZE
                 /\ IndexEnd(dcs[n]) = Len(frame.global_indices) * INDEX_SIZE
            /\ ~panicked =>
                 /\ Len(pass) = n
                 /\ \A k \in 1 .. n :
                      /\ pass[k].vertex_range = <<dcs[k].vertex_offset, VertexEnd(dcs[k])>>
                      /\ pass[k].index_range = <<dcs[k].index_offset, IndexEnd(dcs[k])>>

\* C25 witness: a frame of three batches, of one drawable, of two and of one:
\* the third batch's vertices are bytes 192 .. 256 and its indices bytes
\* 36 .. 48 of the slot.
C25_Witness ==
    /\ frame.called /\ ~panicked
    /\ Len(frame.draw_calls) = 3
    /\ Len(frame.batches[1].drawables) = 1
    /\ Len(frame.batches[2].drawables) = 2
    /\ frame.draw_calls[3].vertex_offset = 192
    /\ pass[3].vertex_range = <<192, 256>>
    /\ pass[3].index_range = <<36, 48>>

\* The indices a recorded draw fetches: elements indices[1] .. indices[2] of
\* the index slice bound for it, which starts at byte index_range[1] of the
\* slot's index buffer.
FetchedIndices(draw) ==
    LET first == draw.index_range[1] \div INDEX_SIZE
    IN  SubSeq(ibufs[draw.slot], first + draw.indices[1] + 1, first + draw.indices[2])

\* The number of vertices in the vertex slice bound for a recorded draw.
SliceVertices(draw) ==
    (draw.vertex_range[2] - draw.vertex_range[1]) \div VERTEX_SIZE

\* C31: every index a draw call of draw_sprites_batched fetches, taken
\* relative to the vertex slice bound for the call, is less than 4 times the
\* number of drawables of the call's batch: no draw call addresses a vertex
\* outside its own batch's slice, in frames of one batch and of several.
C31_IndicesStayInBatchSlice ==
    (frame.called /\ ~panicked /\ ret.op = "draw_sprites_batched") =>
        \A k \in 1 .. Len(pass) :
            LET fetched == FetchedIndices(pass[k])
            IN  /\ Len(fetched) = 6 * Len(frame.batches[k].drawables)
                /\ \A j \in 1 .. Len(fetched) :
                     /\ fetched[j] + pass[k].base_vertex
                          < 4 * Len(frame.batches[k].drawables)
                     /\ fetched[j] + pass[k].base_vertex < SliceVertices(pass[k])

\* C32: in every frame the binding of batch k's draw call is built from a
\* TextureHandle that is alive during the call and is the handle of every
\* drawable of the batch; two drawables of the frame have the same batch key
\* exactly when they share one TextureHandle; and no draw uses the binding of
\* a handle that was freed, also when a later handle lives at its address.
C32_BindingIsOfLiveBatchHandle ==
    (frame.called /\ ~panicked /\ ret.op = "draw_sprites_batched") =>
        /\ Len(pass) = Len(frame.batches)
        /\ \A k \in 1 .. Len(pass) :
             /\ \E a \in DOMAIN heap : pass[k].bind_group.handle = heap[a]
             /\ \A i \in 1 .. Len(frame.batches[k].drawables) :
                  LET d == frame.batches[k].drawables[i]
                  IN  /\ d.tex \in DOMAIN heap
                      /\ pass[k].bind_group.handle = heap[d.tex]
        /\ \A i, j \in 1 .. Len(frame.drawables) :
             (BatchKey(frame.drawables[i]) = BatchKey(frame.drawables[j]))
               <=> (heap[frame.drawables[i].tex] = heap[frame.drawables[j].tex])

\* C32 witness: address 1 held a handle of black.png that was freed, and
\* holds the third handle created, of white.png, which both entities share:
\* the frame drawn has one batch of two drawables, bound to that third handle.
C32_Witness ==
    /\ ret.op = "draw_sprites_batched" /\ frame.called
    /\ <<"texture", "black.png", 1>> \in loaded
    /\ <<"texture", "white.png", 1>> \in loaded
    /\ Len(pass) = 1
    /\ Len(frame.batches[1].drawables) = 2
    /\ pass[1].bind_group.view = 1
    /\ pass[1].bind_group.handle =
         [kind |-> "TextureHandle", image |-> "white.png", serial |-> 3]

\* C38: the 16-bit counter never overflows or wraps: after N drawables,
\* few or more than a slot holds, the process has not been aborted, the
\* counter reads 4N, which fits in 16 bits, and the six indices written for
\* the i-th drawable (0-indexed) are 4i, 4i+1, 4i+2, 4i+2, 4i+3, 4i.
C38_VertexCounterNeverWraps ==
    aggregation.active =>
        LET acc == aggregation.acc
            n == Len(acc.gi) \div 6
            N == aggregation.before + n
        IN  /\ ~panicked
            /\ 4 * N < U16_RANGE
            /\ acc.vct = 4 * N
            /\ \A q \in 0 .. (n - 1) :
                 LET i == aggregation.before + q
                 IN  SubSeq(acc.gi, 6 * q + 1, 6 * q + 6) =
                       <<4 * i, 4 * i + 1, 4 * i + 2, 4 * i + 2, 4 * i + 3, 4 * i>>

\* C17: a frame whose vertices or indices exceed a slot's 4096 bytes is
\* failed with an error the caller receives, the process going on, and no
\* slot ever holds more than its capacity.
C17_OverflowFailsFrame ==
    /\ (frame.called /\ WriteOverflows(frame.global_vertices, frame.global_indices))
          => ~panicked
    /\ \A sl \in 0 .. (NUM_SLOTS - 1) :
          /\ Len(vbufs[sl]) * VERTEX_SIZE <= BUFFER_SIZE
          /\ Len(ibufs[sl]) * INDEX_SIZE <= BUFFER_SIZE

\* ---------------------------------------------------------------- claims: queries

\* a.z <= b.z on f32: false when either is NaN.
ZLeq(a, b) == ~a.nan /\ ~b.nan /\ a.v <= b.v

\* C6: query_drawables_with_z returns the drawables in ascending z: every
\* adjacent pair (a, b) of what it returns satisfies a.z <= b.z.
C6_QueryWithZAscending ==
    ret.op = "query_drawables_with_z" =>
        \A i \in 1 .. (Len(ret.val) - 1) : ZLeq(ret.val[i].t.z, ret.val[i + 1].t.z)

\* C6 witness: entities inserted with z 0.2, 0.8, 0.5 came back as 0.2, 0.5, 0.8.
C6_Witness ==
    /\ ret.op = "query_drawables_with_z"
    /\ DOMAIN transforms = {0, 1, 2}
    /\ transforms[0].z = Z(2) /\ transforms[1].z = Z(8) /\ transforms[2].z = Z(5)
    /\ Len(ret.val) = 3
    /\ ret.val[1].t.z = Z(2) /\ ret.val[2].t.z = Z(5) /\ ret.val[3].t.z = Z(8)

\* The entities that have both a Transform and a Sprite.
DrawableEntities == (DOMAIN transforms) \cap (DOMAIN sprites)

\* The entry a query returns for a drawable entity.
EntryOf(e) == [t |-> transforms[e], tex |-> sprites[e]]

\* C7: query_drawables and query_drawables_with_z each return exactly one
\* entry per entity that has both a Transform and a Sprite, carrying its
\* current Transform and texture, and nothing for any other entity.
C7_QueriesReturnExactlyTheDrawables ==
    ret.op \in {"query_drawables", "query_drawables_with_z"} =>
        /\ Len(ret.val) = Cardinality(DrawableEntities)
        /\ \A i \in 1 .. Len(ret.val) : \E e \in DrawableEntities : ret.val[i] = EntryOf(e)
        /\ \A e \in DrawableEntities :
             Cardinality({i \in 1 .. Len(ret.val) : ret.val[i] = EntryOf(e)})
               = Cardinality({f \in DrawableEntities : EntryOf(f) = EntryOf(e)})

\* C7 witness: a query of a world with one entity holding only a Transform,
\* and another holding both, returned the one entry.
C7_Witness ==
    /\ ret.op = "query_drawables"
    /\ \E e \in DOMAIN transforms : e \notin DOMAIN sprites
    /\ Cardinality(DrawableEntities) = 1
    /\ Len(ret.val) = 1

\* The texture and the number of drawables of each batch, in batch order.
BatchShape(bs) ==
    [k \in 1 .. Len(bs) |-> <<bs[k].texture_ptr, Len(bs[k].drawables)>>]

\* The batches draw_sprites_batched builds from the world as it is, the
\* transform map being iterated in the given order.
BatchesFor(order) ==
    BuildFrame(query_drawables_with_z(transforms, sprites, order), frame.slot).batches

\* No two drawables of equal z have different textures.
TiesShareTexture ==
    \A e1, e2 \in DrawableEntities :
        transforms[e1].z = transforms[e2].z => sprites[e1] = sprites[e2]

\* C36, as claimed: the batches of a frame (their textures and sizes, and
\* so the number of draw calls) are those every iteration order of the
\* world's maps gives, also when drawables of different textures share a z.
C36_BatchesIgnoreIterationOrder ==
    frame.called =>
        \A order \in IterOrders(DOMAIN transforms) :
            BatchShape(BatchesFor(order)) = BatchShape(frame.batches)

\* C36, amended: when no two drawables of different textures share a z, the
\* batches of a frame (their textures and sizes, and so the number of draw
\* calls) are those every iteration order of the world's maps gives.
C36_BatchesIgnoreOrderWithoutMixedTies ==
    (frame.called /\ TiesShareTexture) =>
        \A order \in IterOrders(DOMAIN transforms) :
            BatchShape(BatchesFor(order)) = BatchShape(frame.batches)

\* C36 witness: a frame of a world of three drawables, two of them of one z
\* and one texture and the third of a greater z and the other texture: two
\* batches, whichever of the six orders the map was iterated in.
C36_Witness ==
    /\ frame.called /\ TiesShareTexture
    /\ Cardinality(DrawableEntities) = 3
    /\ Len(frame.drawables) = 3
    /\ frame.drawables[1].t.z = frame.drawables[2].t.z
    /\ frame.drawables[2].t.z # frame.drawables[3].t.z
    /\ BatchShape(frame.batches) = <<<<1, 2>>, <<2, 1>>>>

\* Some drawable of the world has a NaN z.
SomeZIsNaN == \E e \in DrawableEntities : transforms[e].z.nan

\* Every adjacent pair (a, b) of the drawables ds satisfies a.z <= b.z.
AscendingZ(ds) == \A i \in 1 .. (Len(ds) - 1) : ZLeq(ds[i].t.z, ds[i + 1].t.z)

\* C37: once query_drawables_with_z or draw_sprites_batched was called on a
\* world, the process is aborted exactly when the world has two or more
\* drawables and one of them a NaN z (the sort then compares it); a world of
\* at most one drawable is served normally; and what a call returned, or a
\* frame was built from, is all the drawables in ascending z, never a partly
\* sorted sequence.
C37_SortAbortsExactlyOnComparedNaN ==
    /\ ret.op # "new" =>
          (panicked <=> (Cardinality(DrawableEntities) >= 2 /\ SomeZIsNaN))
    /\ ret.op = "query_drawables_with_z" =>
          /\ ~panicked
          /\ Len(ret.val) = Cardinality(DrawableEntities)
          /\ AscendingZ(ret.val)
    /\ frame.called =>
          /\ ~panicked
          /\ Len(frame.drawables) = Cardinality(DrawableEntities)
          /\ AscendingZ(frame.drawables)
    /\ panicked => ~frame.called /\ pass = <<>>

\* C37 witness: a world of two drawables, of z 0.5 and of z NaN:
\* query_drawables_with_z panicked.
C37_Witness ==
    /\ ret = [op |-> "panic", val |-> [call |-> "query_drawables_with_z"]]
    /\ panicked
    /\ DrawableEntities = {0, 1}
    /\ transforms[0].z = Z(5)
    /\ transforms[1].z = ZNaN

\* ---------------------------------------------------------------- claims: quads

\* The four vertices the claim gives for a Transform.
ClaimedQuad(t) ==
    << <<t.x, t.y + t.h, 0, 0>>, <<t.x + t.w, t.y + t.h, 1, 0>>,
       <<t.x + t.w, t.y, 1, 1>>, <<t.x, t.y, 0, 1>> >>

\* C26: the i-th drawable of a batched frame has written, as vertices
\* 4i-3 .. 4i, its corners top-left, top-right, bottom-right, bottom-left,
\* (x, y+h), (x+w, y+h), (x+w, y), (x, y), with texture coordinates (0,0),
\* (1,0), (1,1), (0,1) and nothing else; and draw_world has recorded one draw
\* per drawable entity whose vertex buffer holds these same four vertices.
C26_QuadVertexOrder ==
    /\ frame.called =>
          /\ Len(frame.global_vertices) = 4 * Len(frame.drawables)
          /\ \A i \in 1 .. Len(frame.drawables) :
                SubSeq(frame.global_vertices, 4 * i - 3, 4 * i)
                   = ClaimedQuad(frame.drawables[i].t)
    /\ ret.op = "draw_world" =>
          /\ Len(pass) = Cardinality(DrawableEntities)
          /\ \A e \in DrawableEntities : \E i \in 1 .. Len(pass) :
                /\ pass[i].bind_group.view = sprites[e]
                /\ pass[i].vertex_buffer = ClaimedQuad(transforms[e])
          /\ \A i \in 1 .. Len(pass) : \E e \in DrawableEntities :
                /\ pass[i].bind_group.view = sprites[e]
                /\ pass[i].vertex_buffer = ClaimedQuad(transforms[e])

\* C26 witness: draw_world has drawn, after a batched frame of the same
\* world, the drawable at (10, 20) of size 30 x 40: both hold the vertices
\* (10, 60), (40, 60), (40, 20), (10, 20).
C26_Witness ==
    /\ ret.op = "draw_world" /\ frame.called
    /\ Len(pass) = 2
    /\ pass[2].vertex_buffer =
         << <<10, 60, 0, 0>>, <<40, 60, 1, 0>>, <<40, 20, 1, 1>>, <<10, 20, 0, 1>> >>
    /\ SubSeq(frame.global_vertices, 1, 4) = pass[2].vertex_buffer

\* Renderer::new, line 212: index_data, the contents of Renderer.index_buffer.
index_data == <<0, 1, 2, 2, 3, 0>>

\* What a fetch of a vertex outside the bound slice may give, by the device:
\* zeros, the last vertex of the slice, or what the buffer holds there.
OutOfSliceFetches == {"zero", "clamp", "buffer"}

\* The vertex a recorded draw of the batched pass fetches for index idx.
\* What was never written to a slot is zero.
AddressedVertex(draw, idx, oob) ==
    LET first == draw.vertex_range[1] \div VERTEX_SIZE
        buf == vbufs[draw.slot]
    IN  IF idx + draw.base_vertex < SliceVertices(draw)
        THEN buf[first + idx + draw.base_vertex + 1]
        ELSE IF oob = "clamp" THEN buf[first + SliceVertices(draw)]
        ELSE IF oob = "buffer" /\ first + idx + draw.base_vertex + 1 <= Len(buf)
        THEN buf[first + idx + draw.base_vertex + 1]
        ELSE <<0, 0, 0, 0>>

\* The draws of the last batched frame, as its pass recorded them.
BatchedDraws == RecordPass(frame.draw_calls, frame.slot)

\* The q-th quad (0-indexed) draw k of the batched pass draws: the six
\* vertices its indices address, and the texture bound.
BatchedQuad(k, q, oob) ==
    LET draw == BatchedDraws[k]
        fetched == FetchedIndices(draw)
    IN  [ vertices |-> [i \in 1 .. 6 |-> AddressedVertex(draw, fetched[6 * q + i], oob)],
          texture  |-> draw.bind_group ]

\* The quads of the batched pass: a pair <<k, q>> for quad q of draw k.
BatchedQuadIds ==
    UNION { { <<k, q>> : q \in 0 .. ((BatchedDraws[k].indices[2] \div 6) - 1) } :
            k \in 1 .. Len(BatchedDraws) }

\* The quad draw i of draw_world's pass draws, through the renderer's one
\* index buffer.
WorldQuad(i) ==
    [ vertices |-> [j \in 1 .. 6 |->
                      pass[i].vertex_buffer[index_data[j] + pass[i].base_vertex + 1]],
      texture  |-> pass[i].bind_group ]

\* C33: the batched and the unbatched path draw the same, up to order:
\* draw_world issues one draw per drawable, and every (quad vertices,
\* texture) pair is addressed by the draw calls of draw_sprites_batched as
\* many times as draw_world draws it, whatever the device gives for a fetch
\* outside a slice.
C33_BatchedDrawsWhatWorldDraws ==
    (ret.op = "draw_world" /\ frame.called /\ ~panicked) =>
        /\ Len(pass) = Cardinality(DrawableEntities)
        /\ \A oob \in OutOfSliceFetches :
             LET batched == {BatchedQuad(id[1], id[2], oob) : id \in BatchedQuadIds}
                 world == {WorldQuad(i) : i \in 1 .. Len(pass)}
             IN  \A p \in batched \cup world :
                    Cardinality({id \in BatchedQuadIds :
                                   BatchedQuad(id[1], id[2], oob) = p})
                      = Cardinality({i \in 1 .. Len(pass) : WorldQuad(i) = p})

\* ---------------------------------------------------------------- claims: entity store

\* C11: every spawn returns the value of the counter and leaves the counter
\* greater than the identifier returned, so each identifier is greater than
\* all returned before it, also at the end of the 32-bit range.
C11_SpawnStrictlyIncreasing ==
    [][ret'.op = "spawn" =>
          /\ ret'.val = next_entity
          /\ ULt(ret'.val, next_entity')]_vars

\* C21: a spawn leaves the transform map and the sprite map as they were,
\* and with them the drawable entities and their entries.
C21_SpawnChangesOnlyCounter ==
    [][ret'.op = "spawn" =>
          /\ transforms' = transforms
          /\ sprites' = sprites
          /\ DrawableEntities' = DrawableEntities
          /\ next_entity' # next_entity]_vars

\* C34: whatever spawn, add_transform and add_sprite calls went before, the
\* identifier a spawn has just returned is unused: it has neither a Transform
\* nor a Sprite attached.
C34_SpawnedIdentifierIsUnused ==
    ret.op = "spawn" =>
        /\ ret.val \notin DOMAIN transforms
        /\ ret.val \notin DOMAIN sprites

\* C21 witness: entity 0 being drawable, a second spawn returned 1 and the
\* world still holds the one drawable.
C21_Witness ==
    /\ ret = [op |-> "spawn", val |-> 1]
    /\ next_entity = 2
    /\ DrawableEntities = {0}
    /\ DOMAIN transforms = {0}

\* m2 is m1 with key k holding v and every other key as it was.
IsUpsertOf(m2, m1, k, v) ==
    /\ DOMAIN m2 = DOMAIN m1 \cup {k}
    /\ m2[k] = v
    /\ \A o \in DOMAIN m1 \ {k} : m2[o] = m1[o]

\* C12: add_transform(e, t) makes e's Transform t and leaves the other
\* Transforms, the sprites and the counter as they were; add_sprite(e, s)
\* does so for the sprites, leaving the transforms and the counter.
C12_AddComponentFrame ==
    [][/\ ret'.op = "add_transform" =>
             /\ IsUpsertOf(transforms', transforms, ret'.val.e, ret'.val.c)
             /\ sprites' = sprites
             /\ next_entity' = next_entity
       /\ ret'.op = "add_sprite" =>
             /\ IsUpsertOf(sprites', sprites, ret'.val.e, ret'.val.c)
             /\ transforms' = transforms
             /\ next_entity' = next_entity]_vars

\* C12 witness: entity 0 got a second Transform, replacing its first, while
\* entity 1 has a Transform and entity 0 a Sprite.
C12_Witness ==
    /\ ret.op = "add_transform" /\ ret.val.e = 0
    /\ ret.val.c.z = Z(8)
    /\ transforms[0].z = Z(8)
    /\ 1 \in DOMAIN transforms /\ transforms[1].z = Z(2)
    /\ 0 \in DOMAIN sprites

\* ---------------------------------------------------------------- claims: asset cache

\* The (path, handle) pairs load_texture has returned.
TextureLoads == {<<r[2], r[3]>> : r \in {q \in loaded : q[1] = "texture"}}

\* C1: over all load_texture calls so far, two calls with equal path strings
\* returned the same handle and two calls with different path strings
\* returned different handles, also when both strings name one file.
C1_CacheIdentity ==
    \A r1, r2 \in TextureLoads : (r1[1] = r2[1]) <=> (r1[2] = r2[2])

\* C1 witness: black.png was loaded, white.png after it, and a further
\* load of black.png hit the cache; ./black.png, the same file, has a
\* handle of its own.
C1_Witness ==
    /\ ret.op = "load_texture" /\ ret.val.hit /\ ret.val.path = "black.png"
    /\ {"black.png", "./black.png", "white.png"} \subseteq DOMAIN textures
    /\ textures["black.png"] # textures["./black.png"]
    /\ heap[textures["black.png"]].image = heap[textures["./black.png"]].image

\* C16: a load_texture call whose path cannot be read or decoded returns to
\* its caller (with DecodeFailure) rather than aborting the process, and no
\* such path has an entry in the texture cache.
C16_UnreadableLoadReturnsError ==
    /\ ~(ret.op = "panic" /\ ret.val.call = "load_texture")
    /\ \A p \in DOMAIN textures : Readable(p)

\* The path strings load_texture has returned a handle for.
PathsLoaded == {r[1] : r \in TextureLoads}

\* C18: after every load_texture call the number of textures created and
\* uploaded equals the number of distinct path strings loaded so far, and a
\* call that hits the cache uploads nothing and leaves the cache as it was.
C18_HitDoesNoGpuWork ==
    [][ret'.op = "load_texture" =>
         /\ gpu_uploads' = Cardinality(PathsLoaded')
         /\ ret'.val.hit => /\ gpu_uploads' = gpu_uploads
                            /\ textures' = textures
                            /\ heap' = heap]_vars

\* C18 witness: three path strings were loaded, white.png twice, the second
\* load of it hitting the cache; three textures were uploaded.
C18_Witness ==
    /\ ret.op = "load_texture" /\ ret.val.hit /\ ret.val.path = "white.png"
    /\ PathsLoaded = {"black.png", "./black.png", "white.png"}
    /\ gpu_uploads = 3

\* The (path, module) pairs load_shader has returned.
ShaderLoads == {<<r[2], r[3]>> : r \in {q \in loaded : q[1] = "shader"}}

\* C19: over all load_shader calls so far, two calls with equal path strings
\* returned the same module and two with different strings different modules;
\* a load_texture call leaves the shader cache as it was and a load_shader
\* call the texture cache, and no handle is an entry of both caches.
C19_ShaderCacheIdentity ==
    [][/\ \A r1, r2 \in ShaderLoads' : (r1[1] = r2[1]) <=> (r1[2] = r2[2])
       /\ ret'.op = "load_texture" => shaders' = shaders
       /\ ret'.op = "load_shader" => textures' = textures /\ gpu_uploads' = gpu_uploads
       /\ \A p \in DOMAIN textures' : \A q \in DOMAIN shaders' :
             textures'[p] # shaders'[q]]_vars

\* C19 witness: with textures in the texture cache, sprite.wgsl and
\* ./sprite.wgsl, one file, have a module each, and a further load_shader of
\* sprite.wgsl hit the cache.
C19_Witness ==
    /\ ret.op = "load_shader" /\ ret.val.hit /\ ret.val.path = "sprite.wgsl"
    /\ DOMAIN shaders = {"sprite.wgsl", "./sprite.wgsl"}
    /\ shaders["sprite.wgsl"] # shaders["./sprite.wgsl"]
    /\ {"black.png", "white.png"} \subseteq DOMAIN textures

\* ---------------------------------------------------------------- claims: frames

\* C2: when draw_sprites_batched, called from Renderer::render, writes the
\* active slot, the GPU is executing no earlier submission (a single frame
\* in flight), so none that reads the slot written.
C2_NoSubmissionInFlightAtWrite ==
    /\ write_inflight = {}
    /\ pc = "recorded" => inflight = {}

\* C2 witness: the third frame has just written slot 0, which the first
\* frame's draws read.
C2_Witness ==
    /\ pc = "recorded"
    /\ completed = 2
    /\ frame.slot = 0
    /\ Len(pass) >= 1
    /\ submitted = 2

\* C3: after n completed render calls the slot index is n mod 2, it is
\* always 0 or 1, and the frames wrote slots 0, 1, 0, ... in turn.
C3_SlotAlternates ==
    /\ current_buffer \in {0, 1}
    /\ current_buffer = completed % 2
    /\ \A i \in 1 .. Len(slots_used) : slots_used[i] = (i - 1) % 2

\* C3 witness: three frames completed, having written slots 0, 1, 0.
C3_Witness ==
    /\ completed = 3
    /\ slots_used = <<0, 1, 0>>
    /\ current_buffer = 1

\* ---------------------------------------------------------------- claims: acquire

\* s is a prefix of t.
IsPrefix(s, t) == Len(s) <= Len(t) /\ SubSeq(t, 1, Len(s)) = s

\* What a frame does from its successful acquire on: in Renderer::render, and
\* in run_game's redraw handler.
NormalFrame ==
    IF phase = "running"
    THEN <<"acquire", "record", "submit", "present">>
    ELSE <<"acquire", "record", "submit", "present", "wait", "completion", "flip">>

\* C15: a frame whose first acquire failed has reconfigured the surface once
\* and acquired a second time, once; after a successful retry it does what a
\* frame without failure does; after a failed retry the process is aborted,
\* the frame has done nothing more, only the frames that ran to their end
\* have submitted, and the slot index is that of the frames completed.
C15_AcquireRetriesOnce ==
    (Len(events) >= 1 /\ events[1] = "acquire_failed") =>
        /\ Len(events) >= 3
        /\ events[2] = "configure"
        /\ CountIn(events, "configure") = 1
        /\ CountIn(events, "acquire") + CountIn(events, "acquire_failed") = 2
        /\ events[3] = "acquire" => IsPrefix(SubSeq(events, 3, Len(events)), NormalFrame)
        /\ events[3] = "acquire_failed" =>
              /\ panicked
              /\ Len(events) = 3
              /\ submitted = completed + redraws
              /\ current_buffer = completed % NUM_SLOTS

\* C15 witness: the second Renderer::render call failed to acquire, succeeded
\* on the retry and ran to its flip.
C15_Witness ==
    /\ phase = "new" /\ completed = 2 /\ pc = "idle" /\ ~panicked
    /\ events = <<"acquire_failed", "configure", "acquire", "record", "submit",
                  "present", "wait", "completion", "flip">>

\* ---------------------------------------------------------------- claims: frame order

\* The events of a Renderer::render call, in the order of its code.
RenderOrder ==
    <<"acquire", "record", "submit", "present", "wait", "completion", "flip">>

\* The events of the current frame from its successful acquire on.
RECURSIVE FromAcquire(_)
FromAcquire(evs) ==
    IF evs = <<>> \/ Head(evs) = "acquire" THEN evs ELSE FromAcquire(Tail(evs))

\* C22: what a Renderer::render call has done since it acquired the surface
\* image is a beginning of acquire, record, submit, present, wait, completion,
\* flip, and the step that flips the slot index is taken with the completion
\* signal received and the frame's submission retired.
C22_RenderEventOrder ==
    [][/\ IsPrefix(FromAcquire(events'), RenderOrder)
       /\ current_buffer' # current_buffer =>
             /\ signalled
             /\ events[Len(events)] = "completion"
             /\ \A sub \in inflight : sub.id # submitted]_vars

\* C22 witness: the first render call has run to its end, with all seven
\* events, and the slot index is 1.
C22_Witness ==
    /\ phase = "new" /\ pc = "idle" /\ completed = 1 /\ current_buffer = 1
    /\ events = RenderOrder

\* C24: given that the GPU retires every submission and the completion
\* callback is delivered, every render call that has submitted its frame
\* returns with the slot index flipped; and as long as the completion signal
\* has not arrived, a render call that waits goes on waiting and the slot
\* index stays as it is.
C24_RenderReturnsIffSignalled ==
    /\ \A n \in 0 .. (MaxFrames - 1) :
          (pc = "submitted" /\ completed = n)
             ~> (pc = "idle" /\ completed = n + 1
                   /\ current_buffer = (n + 1) % NUM_SLOTS)
    /\ [][(pc = "waiting" /\ ~signalled /\ ~signalled') =>
             (pc' = "waiting" /\ current_buffer' = current_buffer)]_vars

\* C24 witness: the second render call blocks on the receiver while the GPU
\* still executes its submission.
C24_Witness ==
    /\ pc = "waiting" /\ ~signalled
    /\ completed = 1 /\ current_buffer = 1
    /\ \E sub \in inflight : sub.id = 2

\* ---------------------------------------------------------------- claims: run_game

\* a / b = c / d for two fractions with non-zero denominators.
FracEq(p, q) == p[1] * q[2] = q[1] * p[2]

\* C8: in the run_game frame loop the slot index is the number of completed
\* frames mod 2 (one flip per frame), and the frames wrote slots 0, 1, 0, ...
C8_FrameLoopFlipsOncePerFrame ==
    phase = "running" =>
        /\ current_buffer = redraws % NUM_SLOTS
        /\ \A i \in 1 .. Len(slots_used) : slots_used[i] = (i - 1) % NUM_SLOTS

\* C23: in the run_game frame loop, no submission that was still executing
\* when draw_sprites_batched last wrote reads the slot it wrote: a slot is
\* written again only once the submissions reading it have been waited for.
C23_FrameLoopGatesSlotReuse ==
    (phase = "running" /\ frame.called) =>
        \A sub \in write_inflight : sub.slot # frame.slot

\* C9: with stretch_mode = false, in every state after run_game's setup the
\* uniform holds (2 / logical_width, 2 / logical_height), whatever resizes
\* were handled.
C9_FixedScaleWithoutStretch ==
    (phase = "running" /\ ~cfg.stretch_mode) =>
        uniform = Scale(cfg.logical_width, cfg.logical_height)

\* C9 witness: logical 800x600 without stretch on a display of scale factor
\* 2; a Resized(1024, 768) was handled, the surface is 1024x768 and the
\* uniform is (0.0025, 0.00333...).
C9_Witness ==
    /\ phase = "running" /\ ~cfg.stretch_mode
    /\ cfg.logical_width = 800 /\ cfg.logical_height = 600
    /\ scale_factor = 2
    /\ ret = [op |-> "event", val |-> "WindowEvent"]
    /\ surface_config = MkSize(1024, 768)
    /\ FracEq(uniform[1], <<25, 10000>>)
    /\ FracEq(uniform[2], <<1, 300>>)

\* C10: with stretch_mode = true, whenever the surface is configured to
\* (pw, ph), from the start of the loop on, the uniform holds (2 / pw, 2 / ph).
C10_StretchScaleFollowsSurface ==
    (phase = "running" /\ cfg.stretch_mode) =>
        uniform = Scale(surface_config.width, surface_config.height)

\* The callback handling the host's report of a resize to size.
ResizedHandled(size) ==
    EventLoopCallback(MkWindowEvent([kind |-> "Resized", size |-> size]))

\* The scale the configuration asks for on the surface as it is configured.
ScaleOfSurface ==
    IF cfg.stretch_mode
    THEN Scale(surface_config.width, surface_config.height)
    ELSE Scale(cfg.logical_width, cfg.logical_height)

\* C20, as claimed: the handling of every reported resize, whatever the
\* size, leaves the surface configured to the reported size and the uniform
\* holding the scale for it.
C20_ResizeFollowsEveryReport ==
    [][\A size \in ResizeSizes :
          ResizedHandled(size) =>
              /\ surface_config' = size
              /\ uniform' = ScaleOfSurface']_vars

\* C20, amended: the handling of a reported resize of non-zero width and
\* height leaves the surface configured to the reported size and the uniform
\* holding the scale for it; a report of zero width or height leaves both
\* the surface configuration and the uniform as they were.
C20_ResizeFollowsNonZeroReport ==
    [][\A size \in ResizeSizes :
          ResizedHandled(size) =>
              IF size.width > 0 /\ size.height > 0
              THEN /\ surface_config' = size
                   /\ uniform' = ScaleOfSurface'
              ELSE UNCHANGED surfVars]_vars

\* C20 witness: in stretch mode on a display of scale factor 2 a resize to
\* 400x300 was handled: the surface is 400x300 and the uniform (2/400, 2/300),
\* no longer the scale of the start.
C20_Witness ==
    /\ phase = "running" /\ cfg.stretch_mode /\ scale_factor = 2
    /\ ret = [op |-> "event", val |-> "WindowEvent"]
    /\ surface_config = MkSize(400, 300)
    /\ uniform = Scale(400, 300)
    /\ uniform # InitialScale(cfg)

\* C35: Renderer::resize called with a width of 0 or a height of 0 does
\* nothing: the stored surface configuration (and with it the surface) and
\* the scale uniform stay as they were, with and without stretch mode,
\* whether the host calls it itself or run_game's handler does.
C35_ZeroResizeIsNoOp ==
    [][/\ (ret'.op = "resize" /\ (ret'.val.width = 0 \/ ret'.val.height = 0))
            => UNCHANGED surfVars
       /\ \A size \in ResizeSizes :
            (ResizedHandled(size) /\ (size.width = 0 \/ size.height = 0))
              => UNCHANGED surfVars]_vars

\* C35 witness: in stretch mode the surface was resized to 1024x768; a
\* resize to 0x768 was then called and the surface is still 1024x768 and the
\* uniform still (2/1024, 2/768).
C35_Witness ==
    /\ cfg.stretch_mode
    /\ ret = [op |-> "resize", val |-> MkSize(0, 768)]
    /\ surface_config = MkSize(1024, 768)
    /\ uniform = Scale(1024, 768)

\* ---------------------------------------------------------------- claims: input

\* The elements of a Vec.
SetOf(s) == {s[i] : i \in 1 .. Len(s)}

NoDuplicates(s) == Cardinality(SetOf(s)) = Len(s)

\* The window event we is handled by the callback.
WindowEventHandled(we) == EventLoopCallback(MkWindowEvent(we))

\* C27: the handling of a window event leaves keys_pressed without
\* duplicates and holding the keys it held, with the key of a Pressed
\* keyboard event added and the key of a Released one removed, and nothing
\* changed by any other event (so that it holds the keys whose latest event
\* was Pressed); the same for mouse_buttons and mouse events; and
\* cursor_position is the position of the CursorMoved event handled, and is
\* changed by no other event.
C27_InputStateFollowsEvents ==
    [][\A we \in WindowEvents :
          WindowEventHandled(we) =>
              /\ NoDuplicates(keys_pressed') /\ NoDuplicates(mouse_buttons')
              /\ SetOf(keys_pressed') =
                    IF we.kind = "KeyboardInput" /\ we.key # "None"
                    THEN IF we.state = "Pressed"
                         THEN SetOf(keys_pressed) \cup {we.key}
                         ELSE SetOf(keys_pressed) \ {we.key}
                    ELSE SetOf(keys_pressed)
              /\ SetOf(mouse_buttons') =
                    IF we.kind = "MouseInput"
                    THEN IF we.state = "Pressed"
                         THEN SetOf(mouse_buttons) \cup {we.button}
                         ELSE SetOf(mouse_buttons) \ {we.button}
                    ELSE SetOf(mouse_buttons)
              /\ cursor_position' =
                    IF we.kind = "CursorMoved" THEN we.position
                    ELSE cursor_position]_vars

\* C27 witness: B was pressed before A and both are down, the right button
\* is down and the cursor is at (30, 40).
C27_Witness ==
    /\ phase = "running"
    /\ keys_pressed = <<"B", "A">>
    /\ mouse_buttons = <<"Right">>
    /\ cursor_position = <<30, 40>>

\* The window events dispatch makes an InputEvent of.
IsInputEvent(we) ==
    \/ we.kind = "KeyboardInput" /\ we.key # "None"
    \/ we.kind \in {"CursorMoved", "MouseInput"}

\* C28: a dispatch keeps the queued events, in their order, ahead of what
\* it adds: one event for a key, cursor-move or mouse-button event, nothing
\* for any other window event; a drain returns the queued events in that
\* order and leaves the queue empty, so that a drain that follows a drain
\* returns nothing.
C28_DispatcherIsFifo ==
    [][/\ \A we \in WindowEvents :
             Dispatch(we) =>
                 /\ IsPrefix(dispatch_queue, dispatch_queue')
                 /\ Len(dispatch_queue') =
                       Len(dispatch_queue) + (IF IsInputEvent(we) THEN 1 ELSE 0)
                 /\ we.kind \notin {"KeyboardInput", "CursorMoved", "MouseInput"}
                       => dispatch_queue' = dispatch_queue
       /\ Drain =>
             /\ ret'.val = dispatch_queue
             /\ dispatch_queue' = <<>>
             /\ ret.op = "drain" => ret'.val = <<>>]_vars

\* C28 witness: a drain returned a key press, a cursor move and a button
\* press, in the order they were dispatched, and the queue is empty.
C28_Witness ==
    /\ ret.op = "drain"
    /\ ret.val = <<[kind |-> "KeyPressed", key |-> "A"],
                   [kind |-> "MouseMoved", x |-> 10, y |-> 20],
                   [kind |-> "MouseButtonPressed", button |-> "Left"]>>
    /\ dispatch_queue = <<>>

\* C29: the game.update calls of any interval of less than 1000 ms are at
\* most target_fps, and the redraw request is raised by every update and by
\* nothing else.
C29_UpdateRateLimited ==
    [][/\ Len(update_times') <= cfg.target_fps
       /\ update_count' # update_count => redraw_requested'
       /\ (redraw_requested' /\ ~redraw_requested) =>
             update_count' = update_count + 1]_vars

\* C30: the callback that handles a CloseRequested window event leaves the
\* control flow Exit (after which the loop makes no further update or render
\* call).
C30_CloseRequestedExits ==
    [][EventLoopCallback(MkWindowEvent([kind |-> "CloseRequested"])) =>
          control_flow' = Exit]_vars

\* ---------------------------------------------------------------- specifications

\* A world of n drawables: n entities spawned, each given a Transform of Ts
\* and a Sprite.
WorldOf(n, Ts) ==
    /\ next_entity = n
    /\ transforms \in [0 .. (n - 1) -> Ts]
    /\ sprites \in [0 .. (n - 1) -> TextureHandles]

\* The asset cache driven by its callers.
InitAsset ==
    /\ WorldInit
    /\ RendererInit
    /\ GpuInit
    /\ AssetInit
    /\ EngineInit(DefaultConfig, 1)
    /\ ret = [op |-> "new", val |-> 0]
    /\ panicked = FALSE

NextAsset ==
    \/ \E path \in TexturePaths : LoadTexture(path)
    \/ \E path \in ShaderPaths : LoadShader(path)

SpecAsset == InitAsset /\ [][NextAsset]_vars

\* Renderer::render called again and again on a world of at most
\* MaxRendered drawables, beside the GPU.
InitRender ==
    /\ \E n \in 0 .. MaxRendered : WorldOf(n, DrawTransforms)
    /\ RendererInit
    /\ GpuInit
    /\ AssetLoaded
    /\ EngineInit(DefaultConfig, 1)
    /\ ret = [op |-> "new", val |-> 0]
    /\ panicked = FALSE

NextRender ==
    \/ \E outcome \in AcquireOutcomes : RenderAcquire(outcome)
    \/ RenderDraw
    \/ RenderSubmit
    \/ RenderPresent
    \/ RenderWait
    \/ GpuRetire
    \/ WorkDoneCallback
    \/ RenderFlip

SpecRender == InitRender /\ [][NextRender]_vars

\* Renderer::render on a thread that keeps running, beside a GPU that retires
\* every submission and delivers every completion callback.
SpecRenderFair ==
    /\ InitRender
    /\ [][NextRender]_vars
    /\ WF_vars(RenderPresent)
    /\ WF_vars(RenderWait)
    /\ WF_vars(RenderFlip)
    /\ WF_vars(GpuRetire)
    /\ WF_vars(WorkDoneCallback)

\* The entity store driven by its callers.
InitWorld ==
    /\ WorldInit \/ WorldNearWrap
    /\ RendererInit
    /\ GpuInit
    /\ AssetLoaded
    /\ EngineInit(DefaultConfig, 1)
    /\ ret = [op |-> "new", val |-> 0]
    /\ panicked = FALSE

NextWorld ==
    \/ Spawn
    \/ \E e \in Entities, t \in Transforms : AddTransform(e, t)
    \/ \E e \in Entities, tex \in TextureHandles : AddSprite(e, tex)
    \/ QueryDrawables
    \/ QueryDrawablesWithZ

SpecWorld == InitWorld /\ [][NextWorld]_vars

\* The queries applied to a world of at most MaxQueried drawables.
InitQuery ==
    /\ \E n \in 0 .. MaxQueried : WorldOf(n, Transforms)
    /\ RendererInit
    /\ GpuInit
    /\ AssetLoaded
    /\ EngineInit(DefaultConfig, 1)
    /\ ret = [op |-> "new", val |-> 0]
    /\ panicked = FALSE

NextQuery ==
    \/ QueryDrawables
    \/ QueryDrawablesWithZ

SpecQuery == InitQuery /\ [][NextQuery]_vars

\* The draw entry points applied to a world of at most MaxDrawables drawables.
InitDraw ==
    /\ \E n \in 0 .. MaxDrawables : WorldOf(n, DrawTransforms)
    /\ RendererInit
    /\ GpuInit
    /\ AssetLoaded
    /\ EngineInit(DefaultConfig, 1)
    /\ ret = [op |-> "new", val |-> 0]
    /\ panicked = FALSE

NextDraw ==
    \/ DrawSpritesBatched

SpecDraw == InitDraw /\ [][NextDraw]_vars

\* The two draw entry points on a world of at most MaxRendered drawables.
InitQuads ==
    /\ \E n \in 0 .. MaxRendered : WorldOf(n, QuadTransforms)
    /\ RendererInit
    /\ GpuInit
    /\ AssetLoaded
    /\ EngineInit(DefaultConfig, 1)
    /\ ret = [op |-> "new", val |-> 0]
    /\ panicked = FALSE

NextQuads ==
    \/ DrawSpritesBatched
    \/ DrawWorld

SpecQuads == InitQuads /\ [][NextQuads]_vars

\* run_game's setup and the window events of its loop, for each
\* configuration and display.
InitResize ==
    /\ WorldInit
    /\ RendererInit
    /\ GpuInit
    /\ AssetInit
    /\ \E c \in GameConfigs, sf \in ScaleFactors : EngineInit(c, sf)
    /\ ret = [op |-> "new", val |-> 0]
    /\ panicked = FALSE

NextResize ==
    \/ RunGameSetup
    \/ \E we \in WindowEvents : EventLoopCallback(MkWindowEvent(we))
    \/ \E size \in ResizeSizes : RendererResize(size)

SpecResize == InitResize /\ [][NextResize]_vars

\* The events of run_game's frame loop.
FrameEvents ==
    {[type |-> "MainEventsCleared"], [type |-> "RedrawRequested"],
     [type |-> "RedrawEventsCleared"],
     MkWindowEvent([kind |-> "CloseRequested"])}

\* run_game(TestSpriteZ::new(), config): the frame loop beside the clock
\* and the GPU.
InitGame ==
    /\ WorldInit
    /\ RendererInit
    /\ GpuInit
    /\ AssetInit
    /\ \E st \in BOOLEAN : EngineInit([DefaultConfig EXCEPT !.stretch_mode = st], 1)
    /\ ret = [op |-> "new", val |-> 0]
    /\ panicked = FALSE

NextGame ==
    \/ RunGameSetup
    \/ \E event \in FrameEvents : EventLoopCallback(event)
    \/ \E d \in ClockSteps : Tick(d)
    \/ GpuRetire

SpecGame == InitGame /\ [][NextGame]_vars

\* run_game after its setup, with the default configuration.
GameStarted ==
    /\ WorldInit
    /\ RendererInit
    /\ GpuInit
    /\ AssetInit
    /\ cfg = DefaultConfig
    /\ scale_factor = 1
    /\ phase = "running"
    /\ surface_config = InnerSize(DefaultConfig, 1)
    /\ uniform = InitialScale(DefaultConfig)
    /\ keys_pressed = <<>>
    /\ mouse_buttons = <<>>
    /\ cursor_position = <<>>
    /\ dispatch_queue = <<>>
    /\ now = 0
    /\ last_frame_time = 0
    /\ control_flow = Poll
    /\ redraw_requested = FALSE
    /\ update_count = 0
    /\ redraws = 0
    /\ update_times = <<>>
    /\ ret = [op |-> "run_game", val |-> 0]
    /\ panicked = FALSE

\* The two frame loops: a host calling Renderer::render again and again,
\* and run_game's event loop.
InitFrames == InitRender \/ GameStarted

NextFrames ==
    \/ phase = "new" /\ NextRender
    \/ phase = "running" /\ \E event \in FrameEvents : EventLoopCallback(event)
    \/ phase = "running" /\ \E d \in ClockSteps : Tick(d)
    \/ phase = "running" /\ GpuRetire

SpecFrames == InitFrames /\ [][NextFrames]_vars

\* The number of quads whose vertices fill a slot.
SLOT_QUADS == BUFFER_SIZE \div (4 * VERTEX_SIZE)

\* A world of n drawables, all of Transform t and texture tex but the last.
LargeWorld(n, t, tex, tLast, texLast) ==
    /\ next_entity = n
    /\ transforms = [e \in 0 .. (n - 1) |-> IF e = n - 1 THEN tLast ELSE t]
    /\ sprites = [e \in 0 .. (n - 1) |-> IF e = n - 1 THEN texLast ELSE tex]

\* draw_sprites_batched on worlds about as large as a slot.
InitOverflow ==
    /\ \E n \in (SLOT_QUADS - MaxOverflow) .. (SLOT_QUADS + MaxOverflow) :
       \E t \in DrawTransforms \ {MkTransform(100, 150, 128, 128, ZNaN)} :
       \E tLast \in DrawTransforms :
       \E tex, texLast \in TextureHandles :
          LargeWorld(n, t, tex, tLast, texLast)
    /\ RendererInit
    /\ GpuInit
    /\ AssetLoaded
    /\ EngineInit(DefaultConfig, 1)
    /\ ret = [op |-> "new", val |-> 0]
    /\ panicked = FALSE

NextOverflow ==
    \/ DrawSpritesBatchedLarge

SpecOverflow == InitOverflow /\ [][NextOverflow]_vars

\* An InputDispatcher fed the window events of a host and drained.
InitInput ==
    /\ WorldInit
    /\ RendererInit
    /\ GpuInit
    /\ AssetInit
    /\ EngineInit(DefaultConfig, 1)
    /\ ret = [op |-> "new", val |-> 0]
    /\ panicked = FALSE

NextInput ==
    \/ \E we \in WindowEvents : Dispatch(we)
    \/ Drain

SpecInput == InitInput /\ [][NextInput]_vars

\* run_game's frame loop at a low frame rate.
InitRate ==
    /\ WorldInit
    /\ RendererInit
    /\ GpuInit
    /\ AssetInit
    /\ \E c \in SlowConfigs : EngineInit(c, 1)
    /\ ret = [op |-> "new", val |-> 0]
    /\ panicked = FALSE

NextRate ==
    \/ RunGameSetup
    \/ EventLoopCallback([type |-> "MainEventsCleared"])
    \/ EventLoopCallback([type |-> "RedrawRequested"])
    \/ \E d \in SlowClockSteps : SlowTick(d)

SpecRate == InitRate /\ [][NextRate]_vars

\* The sorting entry points on a world of at most MaxRendered drawables, a
\* NaN z among them or not.
InitSort ==
    /\ \E n \in 0 .. MaxRendered : WorldOf(n, Transforms)
    /\ RendererInit
    /\ GpuInit
    /\ AssetLoaded
    /\ EngineInit(DefaultConfig, 1)
    /\ ret = [op |-> "new", val |-> 0]
    /\ panicked = FALSE

NextSort ==
    \/ QueryDrawablesWithZ
    \/ DrawSpritesBatched

SpecSort == InitSort /\ [][NextSort]_vars

\* The aggregation loop of one draw_sprites_batched call, followed from its
\* start, from where a slot fills up and from where the counter's range ends.
InitCounter ==
    /\ WorldInit
    /\ RendererBuffers
    /\ aggregation \in {AggregationAfter(n0) : n0 \in AggregationStarts}
    /\ GpuInit
    /\ AssetLoaded
    /\ EngineInit(DefaultConfig, 1)
    /\ ret = [op |-> "new", val |-> 0]
    /\ panicked = FALSE

NextCounter ==
    \/ \E t \in QuadTransforms : AggregateDrawable(t)

SpecCounter == InitCounter /\ [][NextCounter]_vars

\* The Transform entity e has in the worlds whose sprites are replaced: those
\* of examples/test_sprite_z.rs, z rising by 0.3 from 0.2.
ReplacedTransform(e) ==
    MkTransform(100 + 50 * e, 100 + 50 * e, 200, 200, Z(2 + 3 * e))

\* A world whose entities have their Transforms, their Sprites being given
\* handles of their own, and replaced, between the frames drawn.
InitAlias ==
    /\ next_entity = MaxEntity
    /\ transforms = [e \in Entities |-> ReplacedTransform(e)]
    /\ sprites = EmptyMap
    /\ RendererInit
    /\ GpuInit
    /\ AssetInit
    /\ EngineInit(DefaultConfig, 1)
    /\ ret = [op |-> "new", val |-> 0]
    /\ panicked = FALSE

NextAlias ==
    \/ \E es \in (SUBSET Entities) \ {{}}, path \in TexturePaths \ {"./black.png"} :
          AddSpritesFresh(es, path)
    \/ DrawSpritesBatched

SpecAlias == InitAlias /\ [][NextAlias]_vars

====
